---- MODULE Spec2Model ----
(***************************************************************************)
(* Replication middleware (exata-it/middleware): real-time propagation of  *)
(* public.demanda rows into fiscalizacao.demandas and the periodic         *)
(* reconciliation pass.                                                    *)
(*                                                                         *)
(* Columns.  Every SQL statement of the middleware treats the columns of   *)
(* fiscalizacao.demandas in four classes; the model keeps at least one     *)
(* column of each class:                                                   *)
(*   A  situacao_id, fiscalizado_id          set by every write statement  *)
(*   B  fiscalizado_nome (and _cpf_cnpj), classificacao, ativo (and        *)
(*      operacao_id, data_realizacao)        set by every upsert/update,   *)
(*                                           not by the re-sync UPDATE     *)
(*   C  fiscalizado_demanda (and logradouro, numero, complemento, bairro,  *)
(*      lat, lng)                            set by the single-record      *)
(*                                           statements only               *)
(*   D  motivo_id (and fiscal_id), grupo_ocorrencia_id (and municipio, uf, *)
(*      data_criacao, tipo_rota)             written on INSERT only        *)
(* A person row is identified by its id; its name (nomefantasia) and       *)
(* cpfcnpj are represented by the id itself, the empty string by NULL.     *)
(***************************************************************************)
EXTENDS Integers, Sequences, FiniteSets, TLC

VARIABLES
    origem,     \* source database: demanda, pessoa, fiscaldemanda
    destino,    \* destination database: demandas, pessoas, fiscais, demandas_fiscais
    erros,      \* divergence ledger (erros_sincronizacao.json), a sequence
    chamadas,   \* in-flight invocations of sincronizarDemanda, per caller
    passo,      \* the reconciliation pass: position and locals
    ult         \* the last completed operation: name, input, result

vars == <<origem, destino, erros, chamadas, passo, ult>>

----------------------------------------------------------------------------
(* Bounds and value sets *)

NULL == 0

\* how many times the writer specification applies one record
MaxAplicacoes == 3

\* Two demanda ids tell "this row" from "another row"; two person ids tell a
\* person the source can resolve (1) from one it cannot (2).
DemandaIds == {1, 2}
PessoaIds == {1, 2}

\* situacao values of public.demanda: 2 is inside the reconciliation window
\* (2, 11, 12), 5 is outside of it.
Situacoes == {2, 5}
SituacoesJanela == {2, 11, 12}
Descricoes == {"a", "b"}
\* grupodemanda_id values at the source; only group 1 exists at the destination.
GruposOrigem == {1, 9}
GruposDestino == {1}
\* values of the destination-local columns motivo_id / fiscal_id
MotivosLocais == {NULL, 7}

\* Error texts, as sincronizarDemanda matches them (error.message.includes).
ErroFkPessoa == "violates foreign key constraint demandas_fiscalizado_id_fkey"
ErroOutra == "violates foreign key constraint demandas_grupo_ocorrencia_id_fkey"
ErroIO == "connection terminated"
SemErro == "ok"

incluiFkPessoa(msg) == msg = ErroFkPessoa
incluiViolates(msg) == msg \in {ErroFkPessoa, ErroOutra}

\* Rows of public.demanda with id i.
LinhasOrigem(i, sits, grupos) ==
    [id : {i}, situacao : sits, fiscalizado_id : {NULL} \cup PessoaIds,
     ativo : BOOLEAN, descricao : Descricoes, grupodemanda_id : grupos]

----------------------------------------------------------------------------
(* Mapper *)

classificacaoDe(situacao) ==
    IF situacao = 12 THEN "direta"
    ELSE IF situacao = 2 \/ situacao = 7 THEN "ordinaria" ELSE "N/A"

\* dadosPessoa is NULL or the person's id (standing for its name and cpfcnpj).
mapearDemanda(dataOrigem, dadosPessoa) ==
    [id |-> dataOrigem.id,
     situacao_id |-> dataOrigem.situacao,
     motivo_id |-> NULL,
     fiscal_id |-> NULL,
     fiscalizado_id |-> dataOrigem.fiscalizado_id,
     fiscalizado_demanda |-> dataOrigem.descricao,
     fiscalizado_nome |-> IF dadosPessoa # NULL THEN dadosPessoa ELSE NULL,
     classificacao |-> classificacaoDe(dataOrigem.situacao),
     ativo |-> dataOrigem.ativo,
     grupo_ocorrencia_id |->
         IF dataOrigem.grupodemanda_id # NULL THEN dataOrigem.grupodemanda_id ELSE 1]

buscarDadosPessoa(db, pessoaId) ==
    IF pessoaId = NULL THEN NULL
    ELSE IF pessoaId \in db.pessoas THEN pessoaId ELSE NULL

----------------------------------------------------------------------------
(* Destination constraints *)

\* The foreign key demandas.fiscalizado_id -> pessoas.id on the row as written.
violaFkPessoa(db, fiscalizado_id) ==
    fiscalizado_id # NULL /\ fiscalizado_id \notin db.pessoas

\* The constraints a row violates: on a new row every constraint is checked,
\* on a conflicting row only those of the columns DO UPDATE SET assigns.
violacoes(db, demanda) ==
    (IF violaFkPessoa(db, demanda.fiscalizado_id) THEN {ErroFkPessoa} ELSE {})
    \cup
    (IF demanda.id \notin DOMAIN db.demandas
        /\ demanda.grupo_ocorrencia_id \notin GruposDestino
     THEN {ErroOutra} ELSE {})

\* The violation the database reports when several hold: pref when it is one.
erroRelatado(viol, pref) ==
    IF viol = {} THEN SemErro
    ELSE IF pref \in viol THEN pref ELSE CHOOSE e \in viol : TRUE

Resultado(db, erro) == [db |-> db, erro |-> erro]

----------------------------------------------------------------------------
(* demandaHandler.js: single-record statements *)

\* A faulty variant of the conflict branch: it reactivates the row instead of
\* taking EXCLUDED.ativo.
conflitoInserirReativa(atual, demanda) ==
    [atual EXCEPT !.situacao_id = demanda.situacao_id,
                  !.fiscalizado_id = demanda.fiscalizado_id,
                  !.fiscalizado_nome = demanda.fiscalizado_nome,
                  !.fiscalizado_demanda = demanda.fiscalizado_demanda,
                  !.classificacao = demanda.classificacao,
                  !.ativo = TRUE]

\* ON CONFLICT (id) DO UPDATE SET of inserirDemanda: classes A, B and C.
conflitoInserir(atual, demanda) ==
    [atual EXCEPT !.situacao_id = demanda.situacao_id,
                  !.fiscalizado_id = demanda.fiscalizado_id,
                  !.fiscalizado_nome = demanda.fiscalizado_nome,
                  !.fiscalizado_demanda = demanda.fiscalizado_demanda,
                  !.classificacao = demanda.classificacao,
                  !.ativo = demanda.ativo]

\* The statement on a database where it violates nothing.
upsertUnico(db, demanda) ==
    IF demanda.id \in DOMAIN db.demandas
    THEN [db EXCEPT !.demandas[demanda.id] = conflitoInserir(@, demanda)]
    ELSE [db EXCEPT !.demandas = (demanda.id :> demanda) @@ @]

inserirDemanda(db, demanda, pref) ==
    LET viol == violacoes(db, demanda) IN
    IF viol # {} THEN Resultado(db, erroRelatado(viol, pref))
    ELSE Resultado(upsertUnico(db, demanda), SemErro)

\* Variant: the UPDATE leaves fiscalizado_demanda as the row has it.
updateDemandaSemDescricao(atual, demanda) ==
    [atual EXCEPT !.situacao_id = demanda.situacao_id,
                  !.fiscalizado_id = demanda.fiscalizado_id,
                  !.fiscalizado_nome = demanda.fiscalizado_nome,
                  !.classificacao = demanda.classificacao,
                  !.ativo = demanda.ativo]

\* UPDATE ... WHERE id of atualizarDemanda: classes A, B and C.
updateDemanda(atual, demanda) ==
    [atual EXCEPT !.situacao_id = demanda.situacao_id,
                  !.fiscalizado_id = demanda.fiscalizado_id,
                  !.fiscalizado_nome = demanda.fiscalizado_nome,
                  !.fiscalizado_demanda = demanda.fiscalizado_demanda,
                  !.classificacao = demanda.classificacao,
                  !.ativo = demanda.ativo]

\* The write of atualizarDemanda once its SELECT has answered `existe`.
atualizarDemandaEscrita(db, demanda, existe, pref) ==
    IF ~existe THEN inserirDemanda(db, demanda, pref)
    ELSE IF demanda.id \notin DOMAIN db.demandas THEN Resultado(db, SemErro)
    ELSE IF violaFkPessoa(db, demanda.fiscalizado_id) THEN Resultado(db, ErroFkPessoa)
    ELSE Resultado([db EXCEPT !.demandas[demanda.id] = updateDemanda(@, demanda)],
                   SemErro)

atualizarDemanda(db, demanda, pref) ==
    atualizarDemandaEscrita(db, demanda, demanda.id \in DOMAIN db.demandas, pref)

\* Variant: DELETE FROM fiscalizacao.demandas WHERE id = ...
deletarDemandaFisico(db, id) ==
    Resultado([db EXCEPT !.demandas = [i \in DOMAIN @ \ {id} |-> @[i]]], SemErro)

deletarDemanda(db, id) ==
    IF id \in DOMAIN db.demandas
    THEN Resultado([db EXCEPT !.demandas[id].ativo = FALSE], SemErro)
    ELSE Resultado(db, SemErro)

----------------------------------------------------------------------------
(* pessoaSync.js *)

\* INSERT INTO fiscalizacao.pessoas ... ON CONFLICT (id) DO NOTHING
\* Variant: the INSERT into fiscalizacao.pessoas is left out.
inserirPessoaOmitida(db, pessoaId) == db

inserirPessoa(db, pessoaId) == [db EXCEPT !.pessoas = @ \cup {pessoaId}]

\* garantirPessoaExiste run without interleaving: the database after it and
\* the boolean it returns.
garantirPessoaExiste(db, orig, pessoaId) ==
    IF pessoaId = NULL THEN [db |-> db, ok |-> TRUE]
    ELSE IF pessoaId \in db.pessoas THEN [db |-> db, ok |-> TRUE]
    ELSE IF pessoaId \notin orig.pessoa THEN [db |-> db, ok |-> FALSE]
    ELSE [db |-> inserirPessoa(db, pessoaId), ok |-> TRUE]

----------------------------------------------------------------------------
(* demandaHandler.js: bulk path *)

tentarInserirComRetry(db, orig, demandaMapeada, dadosOriginais, pref) ==
    LET r1 == inserirDemanda(db, demandaMapeada, pref) IN
    IF r1.erro = SemErro THEN r1
    ELSE IF incluiFkPessoa(r1.erro) /\ dadosOriginais.fiscalizado_id # NULL
    THEN LET g == garantirPessoaExiste(db, orig, dadosOriginais.fiscalizado_id) IN
         IF g.ok THEN inserirDemanda(g.db, demandaMapeada, pref)
         ELSE Resultado(g.db, r1.erro)
    ELSE r1

\* Variant: the conflict branch of the bulk statement takes every column of
\* the new row but the key, the destination-local ones included.
conflitoBulkTodasColunas(atual, demanda) == demanda

\* ON CONFLICT (id) DO UPDATE SET of the bulk statement: classes A and B.
conflitoBulk(atual, demanda) ==
    [atual EXCEPT !.situacao_id = demanda.situacao_id,
                  !.fiscalizado_id = demanda.fiscalizado_id,
                  !.fiscalizado_nome = demanda.fiscalizado_nome,
                  !.classificacao = demanda.classificacao,
                  !.ativo = demanda.ativo]

upsertBulkLinha(db, demanda) ==
    IF demanda.id \in DOMAIN db.demandas
    THEN [db EXCEPT !.demandas[demanda.id] = conflitoBulk(@, demanda)]
    ELSE [db EXCEPT !.demandas = (demanda.id :> demanda) @@ @]

RECURSIVE upsertBulkLinhas(_, _, _)
upsertBulkLinhas(db, mapeadas, j) ==
    IF j > Len(mapeadas) THEN db
    ELSE upsertBulkLinhas(upsertBulkLinha(db, mapeadas[j]), mapeadas, j + 1)

\* The one INSERT ... VALUES (all rows) ON CONFLICT statement: all or nothing.
bulkInsert(db, mapeadas, pref, io) ==
    LET viol == UNION {violacoes(db, mapeadas[j]) : j \in DOMAIN mapeadas} IN
    IF io THEN Resultado(db, ErroIO)
    ELSE IF viol # {} THEN Resultado(db, erroRelatado(viol, pref))
    ELSE Resultado(upsertBulkLinhas(db, mapeadas, 1), SemErro)

\* A faulty variant of the catch branch: the first failing record ends the loop.
RECURSIVE bulkIndividualAborta(_, _, _, _, _, _, _)
bulkIndividualAborta(db, orig, demandas, mapeadas, j, acc, pref) ==
    IF j > Len(mapeadas)
    THEN [db |-> db, sucesso |-> acc.sucesso, erros |-> acc.erros, falhas |-> acc.falhas]
    ELSE LET r == tentarInserirComRetry(db, orig, mapeadas[j], demandas[j].data, pref) IN
         IF r.erro = SemErro
         THEN bulkIndividualAborta(r.db, orig, demandas, mapeadas, j + 1,
                                   [acc EXCEPT !.sucesso = @ + 1], pref)
         ELSE [db |-> r.db, sucesso |-> acc.sucesso, erros |-> acc.erros + 1,
               falhas |-> acc.falhas \cup {mapeadas[j].id}]

\* The catch branch: every record on its own, failures counted and skipped.
\* falhas collects the ids the loop logs with console.error.
RECURSIVE bulkIndividual(_, _, _, _, _, _, _)
bulkIndividual(db, orig, demandas, mapeadas, j, acc, pref) ==
    IF j > Len(mapeadas)
    THEN [db |-> db, sucesso |-> acc.sucesso, erros |-> acc.erros, falhas |-> acc.falhas]
    ELSE LET r == tentarInserirComRetry(db, orig, mapeadas[j], demandas[j].data, pref) IN
         IF r.erro = SemErro
         THEN bulkIndividual(r.db, orig, demandas, mapeadas, j + 1,
                             [acc EXCEPT !.sucesso = @ + 1], pref)
         ELSE bulkIndividual(r.db, orig, demandas, mapeadas, j + 1,
                             [acc EXCEPT !.erros = @ + 1,
                                         !.falhas = @ \cup {mapeadas[j].id}], pref)

\* Variant: the catch branch reports the whole batch as written.
sincronizarDemandasBulkContaLote(db, orig, demandas, amb) ==
    IF Len(demandas) = 0 THEN [db |-> db, sucesso |-> 0, erros |-> 0, falhas |-> {}]
    ELSE LET mapeadas == [j \in DOMAIN demandas |->
                             mapearDemanda(demandas[j].data, demandas[j].dadosPessoa)]
             r == bulkInsert(db, mapeadas, amb.pref, amb.io)
             f == bulkIndividual(db, orig, demandas, mapeadas, 1,
                                 [sucesso |-> 0, erros |-> 0, falhas |-> {}], amb.pref)
         IN IF r.erro = SemErro
            THEN [db |-> r.db, sucesso |-> Len(mapeadas), erros |-> 0, falhas |-> {}]
            ELSE [f EXCEPT !.sucesso = Len(mapeadas)]

\* demandas is a sequence of [data, dadosPessoa]; amb = [pref, io] is what the
\* environment decides: the violation reported first, a lost connection.
sincronizarDemandasBulk(db, orig, demandas, amb) ==
    IF Len(demandas) = 0 THEN [db |-> db, sucesso |-> 0, erros |-> 0, falhas |-> {}]
    ELSE LET mapeadas == [j \in DOMAIN demandas |->
                             mapearDemanda(demandas[j].data, demandas[j].dadosPessoa)]
             r == bulkInsert(db, mapeadas, amb.pref, amb.io)
         IN IF r.erro = SemErro
            THEN [db |-> r.db, sucesso |-> Len(mapeadas), erros |-> 0, falhas |-> {}]
            ELSE bulkIndividual(db, orig, demandas, mapeadas, 1,
                                [sucesso |-> 0, erros |-> 0, falhas |-> {}], amb.pref)

----------------------------------------------------------------------------
(* errorLogger.js *)

salvarErro(ledger, id, tabela, tipo, mensagem) ==
    Append(ledger, [id |-> id, table |-> tabela, tipo_erro |-> tipo,
                    mensagem |-> mensagem])

idsNoLedger(ledger) == {ledger[k].id : k \in DOMAIN ledger}

----------------------------------------------------------------------------
(* Initial databases *)

\* Person 1 exists at the source; persons above it exist, if at all, only at
\* the destination and cannot be resolved from the source.
PessoasNaOrigem == {1}

Prefs == {ErroFkPessoa, ErroOutra}

TabelaVazia == [i \in {} |-> NULL]

OrigemVazia == [demanda |-> TabelaVazia, pessoa |-> PessoasNaOrigem, fiscaldemanda |-> {}]

\* Rows fiscalizacao.demandas may hold for id i when the persons are `pessoas`:
\* the mapping of some earlier source row, written with or without the person
\* data, with the destination-local columns as the destination left them.
LinhasDestino(i, pessoas, sits, descs, motivos) ==
    {[mapearDemanda(d, dp) EXCEPT !.motivo_id = m, !.fiscal_id = m] :
        d \in {x \in LinhasOrigem(i, sits, GruposDestino) :
                  x.fiscalizado_id \in {NULL} \cup pessoas /\ x.descricao \in descs},
        dp \in {NULL} \cup pessoas, m \in motivos}

TabelasDestino(pessoas, sits, descs, motivos) ==
    UNION {{f \in [S -> UNION {LinhasDestino(i, pessoas, sits, descs, motivos) : i \in S}] :
               \A i \in S : f[i].id = i /\ f[i].fiscalizado_nome \in {NULL, f[i].fiscalizado_id}}
           : S \in SUBSET DemandaIds}

DestinosIniciais(sits, descs, motivos) ==
    UNION {{[demandas |-> t, pessoas |-> ps, fiscais |-> {}, demandas_fiscais |-> {}] :
               t \in TabelasDestino(ps, sits, descs, motivos)} : ps \in SUBSET PessoaIds}

SemChamadas == [c \in {} |-> NULL]
PassoParado == [pc |-> "parado"]

----------------------------------------------------------------------------
(* Specification of the writer: one operation applied to a destination.    *)

\* Source rows handed to the writer.
LinhasEscrita(i) == LinhasOrigem(i, {2}, GruposOrigem)

\* Batches of source rows with pairwise distinct ids, as `id = ANY(...)` reads
\* them: every one-row batch, and the two-row batches of active rows.
LotesEscrita ==
    {<<[data |-> d, dadosPessoa |-> NULL]>> :
        d \in UNION {LinhasEscrita(i) : i \in DemandaIds}}
    \cup
    {<<[data |-> d1, dadosPessoa |-> NULL], [data |-> d2, dadosPessoa |-> NULL]>> :
        d1 \in {x \in UNION {LinhasEscrita(i) : i \in DemandaIds} : x.ativo},
        d2 \in {x \in UNION {LinhasEscrita(i) : i \in DemandaIds} : x.ativo}}

InitEscrita ==
    /\ origem = OrigemVazia
    /\ destino \in DestinosIniciais({2}, {"a"}, {7})
    /\ erros = <<>>
    /\ chamadas = SemChamadas
    /\ passo = PassoParado
    /\ ult = [op |-> "nenhuma"]

EscInserirDemanda ==
    /\ ult.op = "nenhuma"
    /\ \E i \in DemandaIds, pref \in Prefs :
         \E d \in LinhasEscrita(i) :
           \E dp \in {NULL, buscarDadosPessoa(destino, d.fiscalizado_id)} :
             LET m == mapearDemanda(d, dp)
                 r == inserirDemanda(destino, m, pref)
             IN /\ destino' = r.db
                /\ ult' = [op |-> "inserirDemanda", demanda |-> m, antes |-> destino,
                           apos1 |-> r.db, erro |-> r.erro, n |-> 1]
    /\ UNCHANGED <<origem, erros, chamadas, passo>>

\* The same record applied once more.
EscReaplicar ==
    /\ ult.op = "inserirDemanda"
    /\ ult.n < MaxAplicacoes
    /\ \E pref \in Prefs :
         LET r == inserirDemanda(destino, ult.demanda, pref)
         IN /\ destino' = r.db
            /\ ult' = [ult EXCEPT !.n = @ + 1, !.erro = r.erro]
    /\ UNCHANGED <<origem, erros, chamadas, passo>>

EscBulk ==
    /\ ult.op = "nenhuma"
    /\ \E lote \in LotesEscrita, pref \in Prefs :
         /\ \A j, k \in DOMAIN lote : j # k => lote[j].data.id # lote[k].data.id
         /\ LET r == sincronizarDemandasBulk(destino, origem, lote,
                                             [pref |-> pref, io |-> FALSE])
            IN /\ destino' = r.db
               /\ ult' = [op |-> "sincronizarDemandasBulk", lote |-> lote,
                          antes |-> destino, sucesso |-> r.sucesso, erros |-> r.erros,
                          falhas |-> r.falhas]
    /\ UNCHANGED <<origem, erros, chamadas, passo>>

\* atualizarDemanda: the SELECT and the INSERT or UPDATE it leads to.
EscAtualizarDemanda ==
    /\ ult.op = "nenhuma"
    /\ \E i \in DemandaIds, pref \in Prefs :
         \E d \in LinhasEscrita(i) :
           \E dp \in {NULL, buscarDadosPessoa(destino, d.fiscalizado_id)} :
             LET m == mapearDemanda(d, dp)
                 r == atualizarDemanda(destino, m, pref)
             IN /\ destino' = r.db
                /\ ult' = [op |-> "atualizarDemanda", demanda |-> m, antes |-> destino,
                           erro |-> r.erro]
    /\ UNCHANGED <<origem, erros, chamadas, passo>>

NextEscrita == EscInserirDemanda \/ EscReaplicar \/ EscBulk \/ EscAtualizarDemanda

SpecEscrita == InitEscrita /\ [][NextEscrita]_vars

----------------------------------------------------------------------------
(* Specification of the real-time path: invocations of sincronizarDemanda,  *)
(* one step per database statement, by callers that run concurrently.       *)

Chamadores == {1, 2}
Eventos == {"INSERT", "UPDATE", "DELETE"}

\* Source rows the listener hands to the handler.
LinhasTempoReal(i) ==
    {d \in LinhasOrigem(i, {2}, GruposOrigem) : d.ativo /\ d.descricao = "b"}

\* A row written earlier, enriched at the destination.
LinhaAntiga(i) ==
    [mapearDemanda([id |-> i, situacao |-> 2, fiscalizado_id |-> NULL, ativo |-> TRUE,
                    descricao |-> "a", grupodemanda_id |-> 1], NULL)
        EXCEPT !.motivo_id = 7, !.fiscal_id = 7]

DestinosTempoReal ==
    {[demandas |-> [i \in S |-> LinhaAntiga(i)], pessoas |-> ps,
      fiscais |-> {}, demandas_fiscais |-> {}] :
        S \in SUBSET DemandaIds, ps \in SUBSET PessoasNaOrigem}

ChamadaLivre == [pc |-> "livre"]

InitTempoReal ==
    /\ origem = OrigemVazia
    /\ destino \in DestinosTempoReal
    /\ erros = <<>>
    /\ chamadas = [c \in Chamadores |-> ChamadaLivre]
    /\ passo = PassoParado
    /\ ult = [op |-> "nenhuma"]

\* The listener calls handler(event_type, registro); callers are numbered in
\* the order of their calls.
Iniciar(c) ==
    /\ chamadas[c].pc = "livre"
    /\ \A b \in Chamadores : b < c => chamadas[b].pc # "livre"
    /\ \E evt \in Eventos, i \in DemandaIds :
         \E d \in LinhasTempoReal(i) :
            chamadas' = [chamadas EXCEPT ![c] =
                [pc |-> "buscarDadosPessoa", event_type |-> evt, data |-> d,
                 demandaMapeada |-> mapearDemanda(d, NULL), existe |-> FALSE,
                 erro |-> SemErro, tentativa |-> 1,
                 tent1 |-> "nenhuma", tent2 |-> "nenhuma", ultimaEscrita |-> "nenhuma",
                 registrou |-> FALSE, falhaIO |-> FALSE]]
    /\ UNCHANGED <<origem, destino, erros, passo, ult>>

\* Lines 19-24: the person data read at the destination (null when the read
\* fails), then the mapping.
BuscarDadosPessoa(c) ==
    /\ chamadas[c].pc = "buscarDadosPessoa"
    /\ \E io \in BOOLEAN :
         LET ch == chamadas[c]
             dp == IF io THEN NULL
                   ELSE buscarDadosPessoa(destino, ch.data.fiscalizado_id)
         IN chamadas' = [chamadas EXCEPT ![c] =
                [ch EXCEPT !.demandaMapeada = mapearDemanda(ch.data, dp),
                           !.pc = IF ch.event_type = "UPDATE" THEN "selecionar"
                                  ELSE "escrever"]]
    /\ UNCHANGED <<origem, destino, erros, passo, ult>>

\* Whether the person the record references is at the destination now.
pessoaNoDestino(db, ch) ==
    IF ch.data.fiscalizado_id = NULL \/ ch.event_type = "DELETE" THEN "sem referencia"
    ELSE IF ch.data.fiscalizado_id \in db.pessoas THEN "presente" ELSE "ausente"

\* Variant: the failure of the retry is thrown without a ledger entry.
aposErroSemRegistro(ch, ledger, msg) ==
    IF ch.tentativa = 2 THEN [pc |-> "lancou", erros |-> ledger]
    ELSE IF incluiFkPessoa(msg) /\ ch.data.fiscalizado_id # NULL
    THEN [pc |-> "gpeVerificar", erros |-> ledger]
    ELSE IF incluiViolates(msg)
    THEN [pc |-> "lancou",
          erros |-> salvarErro(ledger, ch.data.id, "demandas", "foreign_key_constraint", msg)]
    ELSE [pc |-> "lancou", erros |-> ledger]

\* The catch of lines 38-76 for an error of the first attempt, up to the call
\* of garantirPessoaExiste; and the catch of lines 56-60 for the retry.
aposErro(ch, ledger, msg) ==
    IF ch.tentativa = 2
    THEN [pc |-> "lancou",
          erros |-> salvarErro(ledger, ch.data.id, "demandas", "foreign_key_constraint", msg)]
    ELSE IF incluiFkPessoa(msg) /\ ch.data.fiscalizado_id # NULL
    THEN [pc |-> "gpeVerificar", erros |-> ledger]
    ELSE IF incluiViolates(msg)
    THEN [pc |-> "lancou",
          erros |-> salvarErro(ledger, ch.data.id, "demandas", "foreign_key_constraint", msg)]
    ELSE [pc |-> "lancou", erros |-> ledger]

\* atualizarDemanda, line 141: SELECT id FROM fiscalizacao.demandas.
Selecionar(c) ==
    /\ chamadas[c].pc = "selecionar"
    /\ \E io \in BOOLEAN :
         LET ch == chamadas[c]
             ap == aposErro(ch, erros, ErroIO)
         IN IF io
            THEN /\ chamadas' = [chamadas EXCEPT ![c] =
                        [ch EXCEPT !.pc = ap.pc, !.falhaIO = TRUE,
                                   !.registrou = ap.erros # erros,
                                   !.erro = IF ch.tentativa = 1 THEN ErroIO ELSE @]]
                 /\ erros' = ap.erros
            ELSE /\ chamadas' = [chamadas EXCEPT ![c] =
                        [ch EXCEPT !.pc = "escrever",
                                   !.existe = ch.data.id \in DOMAIN destino.demandas]]
                 /\ erros' = erros
    /\ UNCHANGED <<origem, destino, passo, ult>>

\* The write statement of the attempt: inserirDemanda, the INSERT or UPDATE of
\* atualizarDemanda, or deletarDemanda.
escritaDaChamada(db, ch, pref, io) ==
    IF io THEN Resultado(db, ErroIO)
    ELSE IF ch.event_type = "INSERT" THEN inserirDemanda(db, ch.demandaMapeada, pref)
    ELSE IF ch.event_type = "UPDATE"
    THEN atualizarDemandaEscrita(db, ch.demandaMapeada, ch.existe, pref)
    ELSE deletarDemanda(db, ch.data.id)

Escrever(c) ==
    /\ chamadas[c].pc = "escrever"
    /\ \E io \in BOOLEAN, pref \in Prefs :
         LET ch == chamadas[c]
             r == escritaDaChamada(destino, ch, pref, io)
             ap == aposErro(ch, erros, r.erro)
             visto == pessoaNoDestino(destino, ch)
             ch1 == [ch EXCEPT !.ultimaEscrita = r.erro,
                               !.tent1 = IF ch.tentativa = 1 THEN visto ELSE @,
                               !.tent2 = IF ch.tentativa = 2 THEN visto ELSE @]
         IN /\ destino' = r.db
            /\ IF r.erro = SemErro
               THEN /\ chamadas' = [chamadas EXCEPT ![c] = [ch1 EXCEPT !.pc = "retornou"]]
                    /\ erros' = erros
               ELSE /\ chamadas' = [chamadas EXCEPT ![c] =
                           [ch1 EXCEPT !.pc = ap.pc, !.falhaIO = @ \/ io,
                                       !.registrou = ap.erros # erros,
                                       !.erro = IF ch.tentativa = 1 THEN r.erro ELSE @]]
                    /\ erros' = ap.erros
    /\ UNCHANGED <<origem, passo, ult>>

\* Variant: the branch falls through to the general handling of line 72 and
\* records the failure a second time.
pessoaNaoSincronizadaDuplica(ch, ledger) ==
    salvarErro(salvarErro(ledger, ch.data.id, "demandas", "foreign_key_constraint",
                          "Pessoa nao encontrada na origem"),
               ch.data.id, "demandas", "foreign_key_constraint", ch.erro)

\* garantirPessoaExiste returned false (lines 61-65).
pessoaNaoSincronizada(ch, ledger) ==
    salvarErro(ledger, ch.data.id, "demandas", "foreign_key_constraint",
               "Pessoa nao encontrada na origem")

\* Variant: after the person is resolved the function returns without writing.
retentarSemEscrever(ch) == [ch EXCEPT !.pc = "retornou"]

\* garantirPessoaExiste returned true: the second attempt (lines 49-55).
retentar(ch) ==
    [ch EXCEPT !.tentativa = 2,
               !.pc = IF ch.event_type = "UPDATE" THEN "selecionar" ELSE "escrever"]

\* garantirPessoaExiste, lines 22-28: SELECT id FROM fiscalizacao.pessoas.
GpeVerificar(c) ==
    /\ chamadas[c].pc = "gpeVerificar"
    /\ \E io \in BOOLEAN :
         LET ch == chamadas[c] IN
         IF io
         THEN /\ chamadas' = [chamadas EXCEPT ![c] =
                    [ch EXCEPT !.pc = "lancou", !.registrou = TRUE, !.falhaIO = TRUE]]
              /\ erros' = pessoaNaoSincronizada(ch, erros)
         ELSE IF ch.data.fiscalizado_id \in destino.pessoas
         THEN /\ chamadas' = [chamadas EXCEPT ![c] = retentar(ch)]
              /\ erros' = erros
         ELSE /\ chamadas' = [chamadas EXCEPT ![c] = [ch EXCEPT !.pc = "gpeBuscar"]]
              /\ erros' = erros
    /\ UNCHANGED <<origem, destino, passo, ult>>

\* garantirPessoaExiste, lines 33-50: SELECT ... FROM public.pessoa.
GpeBuscar(c) ==
    /\ chamadas[c].pc = "gpeBuscar"
    /\ \E io \in BOOLEAN :
         LET ch == chamadas[c] IN
         IF io \/ ch.data.fiscalizado_id \notin origem.pessoa
         THEN /\ chamadas' = [chamadas EXCEPT ![c] =
                    [ch EXCEPT !.pc = "lancou", !.registrou = TRUE, !.falhaIO = @ \/ io]]
              /\ erros' = pessoaNaoSincronizada(ch, erros)
         ELSE /\ chamadas' = [chamadas EXCEPT ![c] = [ch EXCEPT !.pc = "gpeInserir"]]
              /\ erros' = erros
    /\ UNCHANGED <<origem, destino, passo, ult>>

\* garantirPessoaExiste, lines 53-55: inserirPessoa.
GpeInserir(c) ==
    /\ chamadas[c].pc = "gpeInserir"
    /\ \E io \in BOOLEAN :
         LET ch == chamadas[c] IN
         IF io
         THEN /\ chamadas' = [chamadas EXCEPT ![c] =
                    [ch EXCEPT !.pc = "lancou", !.registrou = TRUE, !.falhaIO = TRUE]]
              /\ erros' = pessoaNaoSincronizada(ch, erros)
              /\ destino' = destino
         ELSE /\ chamadas' = [chamadas EXCEPT ![c] = retentar(ch)]
              /\ erros' = erros
              /\ destino' = inserirPessoa(destino, ch.data.fiscalizado_id)
    /\ UNCHANGED <<origem, passo, ult>>

NextTempoReal ==
    \E c \in Chamadores :
        \/ Iniciar(c)
        \/ BuscarDadosPessoa(c)
        \/ Selecionar(c)
        \/ Escrever(c)
        \/ GpeVerificar(c)
        \/ GpeBuscar(c)
        \/ GpeInserir(c)

SpecTempoReal == InitTempoReal /\ [][NextTempoReal]_vars

----------------------------------------------------------------------------
(* reconciliation.js: one pass of verificarGaps over a quiescent source *)

\* The limits and batch sizes of the pass, scaled down: LIMIT 20000 and
\* LOTE_SIZE 200 of verificarGapsDemandas, LIMIT 10000 and LOTE_SIZE 100 of
\* sincronizarDemandasExistentes, LIMIT 5000 of verificarGapsFiscalDemanda.
LimiteJanela == 2
LoteGaps == 1
LimiteExistentes == 2
LoteExistentes == 1
LimiteFiscal == 2

maior(S) == CHOOSE m \in S : \A x \in S : x <= m

\* ORDER BY id DESC
RECURSIVE decrescente(_)
decrescente(S) ==
    IF S = {} THEN <<>> ELSE <<maior(S)>> \o decrescente(S \ {maior(S)})

\* LIMIT n
limitar(seq, n) == SubSeq(seq, 1, IF Len(seq) < n THEN Len(seq) ELSE n)

elementos(seq) == {seq[k] : k \in DOMAIN seq}

\* lote number k of a list cut in slices of tam
loteDe(seq, k, tam) ==
    SubSeq(seq, (k - 1) * tam + 1, IF k * tam < Len(seq) THEN k * tam ELSE Len(seq))

numLotes(n, tam) == (n + tam - 1) \div tam

\* garantirPessoasExistem: the database after it and the set it returns.  With
\* falha = "pessoas" a statement of it fails and the catch returns an empty set.
garantirPessoasExistem(db, orig, pessoaIds, falha) ==
    LET idsUnicos == pessoaIds \ {NULL}
        existentesSet == idsUnicos \cap db.pessoas
        faltantes == idsUnicos \ existentesSet
        pessoas == faltantes \cap orig.pessoa
    IN IF idsUnicos = {} THEN [db |-> db, ids |-> {}]
       ELSE IF falha = "pessoas" THEN [db |-> db, ids |-> {}]
       ELSE IF faltantes = {} THEN [db |-> db, ids |-> existentesSet]
       ELSE [db |-> [db EXCEPT !.pessoas = @ \cup pessoas],
             ids |-> existentesSet \cup pessoas]

\* sincronizarPessoasFaltantes returns nothing: the set of garantirPessoasExistem
\* is dropped.  With falha = "lanca" its SELECT fails and the error propagates.
sincronizarPessoasFaltantes(db, orig, fiscalizadosIds, falha) ==
    LET idsUnicos == fiscalizadosIds \ {NULL}
        idsFaltantes == idsUnicos \ db.pessoas
    IN IF idsUnicos = {} THEN [db |-> db, lancou |-> FALSE]
       ELSE IF falha = "lanca" THEN [db |-> db, lancou |-> TRUE]
       ELSE IF idsFaltantes = {} THEN [db |-> db, lancou |-> FALSE]
       ELSE [db |-> garantirPessoasExistem(db, orig, idsFaltantes, falha).db,
             lancou |-> FALSE]

\* verificarGapsDemandas, lines 94-98: the newest source ids in the window.
origemIds(orig) ==
    limitar(decrescente({i \in DOMAIN orig.demanda :
                            orig.demanda[i].situacao \in SituacoesJanela}),
            LimiteJanela)

janelaOrigem(orig) == elementos(origemIds(orig))

\* Variant: every source id the destination lacks, whatever its situacao.
faltantesSemJanela(db, orig) ==
    SelectSeq(decrescente(DOMAIN orig.demanda), LAMBDA i : i \notin DOMAIN db.demandas)

\* Lines 107-125: the ids of the window the destination lacks.
faltantesDe(db, orig) ==
    LET ids == origemIds(orig) IN
    IF Len(ids) = 0 THEN <<>>
    ELSE LET minId == ids[Len(ids)]
             maxId == ids[1]
             setDestino == {i \in DOMAIN db.demandas : minId <= i /\ i <= maxId}
         IN SelectSeq(ids, LAMBDA i : i \notin setDestino)

\* Lines 143-211 for one lote.  escritos are the ids handed to
\* sincronizarDemandasBulk, semPessoa those among them whose person is not at
\* the destination after the pre-sync.
gapsLote(db, orig, idsLote, falha) ==
    LET encontrados == SelectSeq(idsLote, LAMBDA i : i \in DOMAIN orig.demanda)
        demandasOrigem == [j \in DOMAIN encontrados |-> orig.demanda[encontrados[j]]]
        fiscalizadosIds == {demandasOrigem[j].fiscalizado_id : j \in DOMAIN demandasOrigem}
        sp == sincronizarPessoasFaltantes(db, orig, fiscalizadosIds, falha)
        demandasParaBulk == [j \in DOMAIN demandasOrigem |->
                                [data |-> demandasOrigem[j], dadosPessoa |-> NULL]]
        r == sincronizarDemandasBulk(sp.db, orig, demandasParaBulk,
                                     [pref |-> ErroFkPessoa, io |-> falha = "bulk"])
    IN IF Len(demandasOrigem) = 0
       THEN [db |-> db, lancou |-> FALSE, escritos |-> {}, semPessoa |-> {}, erros |-> 0]
       ELSE IF sp.lancou
       THEN [db |-> db, lancou |-> TRUE, escritos |-> {}, semPessoa |-> {}, erros |-> 0]
       ELSE [db |-> r.db, lancou |-> FALSE,
             escritos |-> elementos(encontrados),
             semPessoa |-> {demandasOrigem[j].id : j \in
                              {x \in DOMAIN demandasOrigem :
                                 violaFkPessoa(sp.db, demandasOrigem[x].fiscalizado_id)}},
             erros |-> r.erros]

\* Variant: only the first lote is processed.
gapsLotesSoPrimeiro(db, orig, faltantes, k, amb, acc) ==
    IF k > numLotes(Len(faltantes), LoteGaps) THEN [acc EXCEPT !.db = db]
    ELSE LET r == gapsLote(db, orig, loteDe(faltantes, k, LoteGaps), amb[k]) IN
         IF r.lancou THEN [acc EXCEPT !.db = db, !.abortou = k]
         ELSE [acc EXCEPT !.db = r.db, !.escritos = @ \cup r.escritos,
                          !.semPessoa = @ \cup r.semPessoa, !.erros = @ + r.erros]

\* The loop over the lotes; an error thrown by the pre-sync ends the phase
\* (catch of line 226).
RECURSIVE gapsLotes(_, _, _, _, _, _)
gapsLotes(db, orig, faltantes, k, amb, acc) ==
    IF k > numLotes(Len(faltantes), LoteGaps) THEN [acc EXCEPT !.db = db]
    ELSE LET r == gapsLote(db, orig, loteDe(faltantes, k, LoteGaps), amb[k]) IN
         IF r.lancou THEN [acc EXCEPT !.db = db, !.abortou = k]
         ELSE gapsLotes(r.db, orig, faltantes, k + 1, amb,
                        [acc EXCEPT !.escritos = @ \cup r.escritos,
                                    !.semPessoa = @ \cup r.semPessoa,
                                    !.erros = @ + r.erros])

verificarGapsDemandas(db, orig, amb) ==
    gapsLotes(db, orig, faltantesDe(db, orig), 1, amb,
              [db |-> db, escritos |-> {}, semPessoa |-> {}, erros |-> 0, abortou |-> 0])

\* sincronizarDemandasExistentes, lines 244-249: the newest destination ids
\* whose situacao_id is in the window.
demandasDestino(db) ==
    limitar(decrescente({i \in DOMAIN db.demandas :
                            db.demandas[i].situacao_id \in SituacoesJanela}),
            LimiteExistentes)

\* Variant: the UPDATE sets situacao_id only.
atualizarExistenteSoSituacao(atual, mapped) ==
    [atual EXCEPT !.situacao_id = mapped.situacao_id]

\* Variant: the UPDATE sets every column the bulk upsert sets.
atualizarExistenteCompleto(atual, mapped) == conflitoBulk(atual, mapped)

\* Lines 350-357: UPDATE ... SET situacao_id, fiscalizado_id.
atualizarExistente(atual, mapped) ==
    [atual EXCEPT !.situacao_id = mapped.situacao_id,
                  !.fiscalizado_id = mapped.fiscalizado_id]

RECURSIVE atualizarExistentes(_, _, _)
atualizarExistentes(db, dadosMapeados, j) ==
    IF j > Len(dadosMapeados) THEN db
    ELSE LET m == dadosMapeados[j] IN
         atualizarExistentes(
             IF m.id \in DOMAIN db.demandas
             THEN [db EXCEPT !.demandas[m.id] = atualizarExistente(@, m)]
             ELSE db,
             dadosMapeados, j + 1)

\* Variant: the UPDATE is applied outside a transaction, row by row, and a
\* failure leaves the rows already updated.
existentesLoteParcial(db, orig, idsLote, falha) ==
    LET encontrados == SelectSeq(idsLote, LAMBDA i : i \in DOMAIN orig.demanda)
        dadosMapeados == [j \in DOMAIN encontrados |->
                             mapearDemanda(orig.demanda[encontrados[j]], NULL)]
        fiscalizadosIds == {dadosMapeados[j].fiscalizado_id : j \in DOMAIN dadosMapeados}
        sp == sincronizarPessoasFaltantes(db, orig, fiscalizadosIds, falha)
    IN IF Len(encontrados) = 0 THEN [db |-> db, erros |-> 0]
       ELSE IF sp.lancou THEN [db |-> db, erros |-> Len(encontrados)]
       ELSE IF falha = "update"
       THEN [db |-> atualizarExistentes(sp.db, SubSeq(dadosMapeados, 1, 1), 1),
             erros |-> Len(encontrados)]
       ELSE [db |-> atualizarExistentes(sp.db, dadosMapeados, 1), erros |-> 0]

\* Lines 283-365 for one lote: the transaction commits for the whole lote or
\* not at all; every error is caught at line 361.
existentesLote(db, orig, idsLote, falha) ==
    LET encontrados == SelectSeq(idsLote, LAMBDA i : i \in DOMAIN orig.demanda)
        dadosMapeados == [j \in DOMAIN encontrados |->
                             mapearDemanda(orig.demanda[encontrados[j]], NULL)]
        fiscalizadosIds == {dadosMapeados[j].fiscalizado_id : j \in DOMAIN dadosMapeados}
        sp == sincronizarPessoasFaltantes(db, orig, fiscalizadosIds, falha)
        viola == \E j \in DOMAIN dadosMapeados :
                    violaFkPessoa(sp.db, dadosMapeados[j].fiscalizado_id)
    IN IF Len(encontrados) = 0 THEN [db |-> db, erros |-> 0]
       ELSE IF sp.lancou THEN [db |-> db, erros |-> Len(encontrados)]
       ELSE IF falha = "update" \/ viola THEN [db |-> sp.db, erros |-> Len(encontrados)]
       ELSE [db |-> atualizarExistentes(sp.db, dadosMapeados, 1), erros |-> 0]

RECURSIVE existentesLotes(_, _, _, _, _, _)
existentesLotes(db, orig, ids, k, amb, errosTotal) ==
    IF k > numLotes(Len(ids), LoteExistentes) THEN [db |-> db, erros |-> errosTotal]
    ELSE LET r == existentesLote(db, orig, loteDe(ids, k, LoteExistentes), amb[k]) IN
         existentesLotes(r.db, orig, ids, k + 1, amb, errosTotal + r.erros)

sincronizarDemandasExistentes(db, orig, amb) ==
    existentesLotes(db, orig, demandasDestino(db), 1, amb, 0)

\* verificarGapsFiscalDemanda, lines 404-410.
demandasAtivasDestino(db) ==
    elementos(limitar(decrescente({i \in DOMAIN db.demandas :
                                      /\ db.demandas[i].situacao_id \in SituacoesJanela
                                      /\ db.demandas[i].ativo}),
                      LimiteFiscal))

\* Lines 422-428.
origemRegistros(orig, demandasIds) ==
    {fd \in orig.fiscaldemanda : fd.ativo /\ fd.demanda_id \in demandasIds}

\* Variant: the pairs of the demandas are replaced by those of the source.
paresSubstituidos(db, registros) ==
    {[demanda_id |-> fd.demanda_id, fiscal_id |-> fd.usuario_id] :
        fd \in {x \in registros : /\ x.demanda_id \in DOMAIN db.demandas
                                  /\ x.usuario_id \in db.fiscais}}

\* Lines 468-482: INSERT ... SELECT with the joins on demandas and fiscais,
\* ON CONFLICT DO NOTHING.
paresReconciliados(db, registros) ==
    db.demandas_fiscais \cup
    {[demanda_id |-> fd.demanda_id, fiscal_id |-> fd.usuario_id] :
        fd \in {x \in registros : /\ x.demanda_id \in DOMAIN db.demandas
                                  /\ x.usuario_id \in db.fiscais}}

verificarGapsFiscalDemanda(db, orig, io) ==
    LET demandasIds == demandasAtivasDestino(db)
        registros == origemRegistros(orig, demandasIds)
    IN IF io \/ demandasIds = {} \/ registros = {} THEN db
       ELSE [db EXCEPT !.demandas_fiscais = paresReconciliados(db, registros)]

----------------------------------------------------------------------------
(* Specification of the reconciliation pass: any source and destination the *)
(* real-time path can have left behind, then the three phases of            *)
(* verificarGaps.                                                           *)

FalhasGaps == {"nenhuma", "pessoas", "lanca", "bulk"}
FalhasExistentes == {"nenhuma", "pessoas", "lanca", "update"}

\* Source rows: demanda 1 in every variation, demanda 2 active only, demanda 3
\* one row in the window.
LinhasReconc(i) ==
    {d \in LinhasOrigem(i, Situacoes, {1}) :
        /\ d.descricao = "b"
        /\ i > 1 => d.ativo
        /\ i > 2 => (d.situacao = 2 /\ d.fiscalizado_id = NULL)}

TabelasOrigemReconc ==
    UNION {[S -> UNION {LinhasReconc(i) : i \in S}] : S \in SUBSET (DemandaIds \cup {3})}

FiscalDemandas ==
    {{}, {[id |-> 1, demanda_id |-> 1, usuario_id |-> 1, ativo |-> TRUE]},
     {[id |-> 1, demanda_id |-> 1, usuario_id |-> 1, ativo |-> FALSE],
      [id |-> 2, demanda_id |-> 2, usuario_id |-> 1, ativo |-> TRUE]}}

OrigensReconc ==
    {[demanda |-> t, pessoa |-> PessoasNaOrigem, fiscaldemanda |-> fds] :
        t \in {x \in TabelasOrigemReconc : \A i \in DOMAIN x : x[i].id = i},
        fds \in FiscalDemandas}

\* Destination rows written earlier: of a source row that had another
\* descricao and no fiscalizado, in the window or not.
LinhasAntigas(i) == {[LinhaAntiga(i) EXCEPT !.situacao_id = sit] : sit \in Situacoes}

DestinosReconc ==
    {[demandas |-> t, pessoas |-> ps, fiscais |-> {1}, demandas_fiscais |-> dfs] :
        t \in {x \in UNION {[S -> UNION {LinhasAntigas(i) : i \in S}] : S \in SUBSET DemandaIds} :
                  \A i \in DOMAIN x : x[i].id = i},
        ps \in SUBSET PessoasNaOrigem,
        dfs \in {{}, {[demanda_id |-> 1, fiscal_id |-> 1]}}}

InitReconc ==
    /\ origem \in OrigensReconc
    /\ destino \in {d \in DestinosReconc :
                      \A par \in d.demandas_fiscais : par.demanda_id \in DOMAIN d.demandas}
    /\ erros = <<>>
    /\ chamadas = SemChamadas
    /\ passo = PassoParado
    /\ ult = [op |-> "nenhuma"]

\* Variant: the error of a step reaches the caller of verificarGaps.
aposPassoRelanca(pc, falhou) ==
    IF falhou THEN "lancou"
    ELSE IF pc = "parado" THEN "existentes"
    ELSE IF pc = "existentes" THEN "fiscal" ELSE "fim"

\* verificarGaps, lines 77-79: the three awaits in sequence.  Each step has
\* its whole body in a try whose catch only logs (226-228, 386-388, 500-503),
\* so the step resolves whether it failed or not.
aposPasso(pc, falhou) ==
    IF pc = "parado" THEN "existentes"
    ELSE IF pc = "existentes" THEN "fiscal" ELSE "fim"

\* verificarGaps, line 77.  antes is the destination the pass found, abortou
\* the number of the lote whose error ended the phase (0 if none).
VerificarGapsDemandas ==
    /\ passo.pc = "parado"
    /\ \E io \in BOOLEAN :
       \E amb \in [1..numLotes(Len(faltantesDe(destino, origem)), LoteGaps) -> FalhasGaps] :
         LET r == IF io THEN [db |-> destino, escritos |-> {}, semPessoa |-> {}, erros |-> 0,
                                  abortou |-> 0]
                  ELSE verificarGapsDemandas(destino, origem, amb)
         IN /\ destino' = r.db
            /\ passo' = [pc |-> aposPasso(passo.pc, io \/ r.abortou > 0),
                         antes |-> destino,
                         janela |-> janelaOrigem(origem),
                         escritos |-> r.escritos, semPessoa |-> r.semPessoa,
                         janelaLida |-> ~io, abortou |-> r.abortou,
                         revistos |-> {},
                         falhaIO |-> io \/ \E k \in DOMAIN amb : amb[k] # "nenhuma",
                         falhaEscrita |-> r.erros > 0]
    /\ UNCHANGED <<origem, erros, chamadas, ult>>

\* verificarGaps, line 78.
SincronizarDemandasExistentes ==
    /\ passo.pc = "existentes"
    /\ \E io \in BOOLEAN :
       \E amb \in [1..numLotes(Len(demandasDestino(destino)), LoteExistentes)
                      -> FalhasExistentes] :
         LET r == IF io THEN [db |-> destino, erros |-> 0]
                  ELSE sincronizarDemandasExistentes(destino, origem, amb)
         IN /\ destino' = r.db
            /\ passo' = [passo EXCEPT
                           !.pc = aposPasso(passo.pc, io \/ r.erros > 0),
                           !.revistos = IF io THEN {} ELSE elementos(demandasDestino(destino)),
                           !.falhaIO = @ \/ io \/ \E k \in DOMAIN amb : amb[k] # "nenhuma",
                           !.falhaEscrita = @ \/ r.erros > 0]
    /\ UNCHANGED <<origem, erros, chamadas, ult>>

\* verificarGaps, line 79.
VerificarGapsFiscalDemanda ==
    /\ passo.pc = "fiscal"
    /\ \E io \in BOOLEAN :
         /\ destino' = verificarGapsFiscalDemanda(destino, origem, io)
         /\ passo' = [passo EXCEPT !.pc = aposPasso(passo.pc, io), !.falhaIO = @ \/ io]
    /\ UNCHANGED <<origem, erros, chamadas, ult>>

NextReconc ==
    \/ VerificarGapsDemandas
    \/ SincronizarDemandasExistentes
    \/ VerificarGapsFiscalDemanda

SpecReconc == InitReconc /\ [][NextReconc]_vars

----------------------------------------------------------------------------
(* Specification of pessoaSync: calls of garantirPessoasExistem, one step   *)
(* per database statement, by callers that run concurrently.                *)

\* BATCH_SIZE of the bulk insert of persons (50), scaled down.
TamanhoBatch == 1

\* Persons of this specification: 1 is at the source, 3 may be, 2 never is.
PessoasSync == {1, 2, 3}
OrigensPessoas == {{1}, {1, 3}}
ConjuntosPedidos == {{}, {1}, {2}, {1, 2}, {1, 3}, {NULL, 1, 2, 3}}

\* ascending list of a set of ids
RECURSIVE crescente(_)
crescente(S) ==
    IF S = {} THEN <<>>
    ELSE LET m == CHOOSE x \in S : \A y \in S : x <= y IN <<m>> \o crescente(S \ {m})

\* Lines 77-86: nulls and duplicates removed.
idsUnicosDe(pessoaIds) == pessoaIds \ {NULL}

\* Lines 93-98: SELECT id FROM fiscalizacao.pessoas WHERE id = ANY(idsUnicos).
existentesDe(db, idsUnicos) == idsUnicos \cap db.pessoas

\* Line 118: WHERE id = ANY(faltantes).
idsLidosNaOrigem(idsUnicos, existentesSet) == idsUnicos \ existentesSet

\* Lines 107-119: the rows of public.pessoa with the ids asked for.
pessoasDaOrigem(orig, lidos) == crescente(lidos \cap orig.pessoa)

\* Variant: a plain INSERT, which an existing id rejects.
inserirBatchSemOnConflict(db, batch) ==
    IF elementos(batch) \cap db.pessoas # {}
    THEN Resultado(db, "violates unique constraint pessoas_pkey")
    ELSE Resultado([db EXCEPT !.pessoas = @ \cup elementos(batch)], SemErro)

\* Lines 171-185: INSERT INTO fiscalizacao.pessoas ... ON CONFLICT (id) DO NOTHING.
inserirBatch(db, batch) ==
    Resultado([db EXCEPT !.pessoas = @ \cup elementos(batch)], SemErro)

\* Variant: only the persons read from the source are reported.
aposBulkSoNovas(existentesSet, pessoas) == elementos(pessoas)

\* Line 188: pessoas.forEach(p => existentesSet.add(p.id)).
aposBulk(existentesSet, pessoas) == existentesSet \cup elementos(pessoas)

ChamadaPessoas(ids) ==
    [pc |-> "existentes", ids |-> ids, existentesSet |-> {}, lidos |-> {},
     pessoas |-> <<>>, i |-> 1, resultado |-> {}, falhou |-> FALSE, fallback |-> FALSE]

InitPessoas ==
    /\ origem \in {[OrigemVazia EXCEPT !.pessoa = ps] : ps \in OrigensPessoas}
    /\ destino \in {[demandas |-> TabelaVazia, pessoas |-> ps, fiscais |-> {},
                     demandas_fiscais |-> {}] : ps \in SUBSET PessoasSync}
    /\ erros = <<>>
    /\ chamadas = [c \in Chamadores |-> ChamadaLivre]
    /\ passo = PassoParado
    /\ ult = [op |-> "nenhuma"]

\* Lines 70-90: the call; an empty list returns an empty Set at once.
PesChamar(c) ==
    /\ chamadas[c].pc = "livre"
    /\ \A b \in Chamadores : b < c => chamadas[b].pc # "livre"
    /\ \E ids \in ConjuntosPedidos :
         chamadas' = [chamadas EXCEPT ![c] =
            IF idsUnicosDe(ids) = {}
            THEN [ChamadaPessoas(ids) EXCEPT !.pc = "retornou"]
            ELSE ChamadaPessoas(ids)]
    /\ UNCHANGED <<origem, destino, erros, passo, ult>>

\* The catch of lines 211-214: an empty Set is returned.
retornaVazio(ch) == [ch EXCEPT !.pc = "retornou", !.resultado = {}, !.falhou = TRUE]

\* Lines 93-102.
PesExistentes(c) ==
    /\ chamadas[c].pc = "existentes"
    /\ \E io \in BOOLEAN :
         LET ch == chamadas[c]
             ex == existentesDe(destino, idsUnicosDe(ch.ids))
         IN chamadas' = [chamadas EXCEPT ![c] =
                IF io THEN retornaVazio(ch)
                ELSE IF idsUnicosDe(ch.ids) \ ex = {}
                THEN [ch EXCEPT !.existentesSet = ex, !.resultado = ex, !.pc = "retornou"]
                ELSE [ch EXCEPT !.existentesSet = ex, !.pc = "origem"]]
    /\ UNCHANGED <<origem, destino, erros, passo, ult>>

\* Lines 107-122 and 209.
PesOrigem(c) ==
    /\ chamadas[c].pc = "origem"
    /\ \E io \in BOOLEAN :
         LET ch == chamadas[c]
             lidos == idsLidosNaOrigem(idsUnicosDe(ch.ids), ch.existentesSet)
             ps == pessoasDaOrigem(origem, lidos)
         IN chamadas' = [chamadas EXCEPT ![c] =
                IF io THEN retornaVazio(ch)
                ELSE IF Len(ps) = 0
                THEN [ch EXCEPT !.lidos = lidos, !.resultado = ch.existentesSet,
                                !.pc = "retornou"]
                ELSE [ch EXCEPT !.lidos = lidos, !.pessoas = ps, !.pc = "bulk"]]
    /\ UNCHANGED <<origem, destino, erros, passo, ult>>

\* Lines 168-189: one batch of the bulk insert; after the last one every
\* person read is added to the Set.  An error goes to the fallback (190).
PesBulk(c) ==
    /\ chamadas[c].pc = "bulk"
    /\ \E io \in BOOLEAN :
         LET ch == chamadas[c]
             batch == loteDe(ch.pessoas, ch.i, TamanhoBatch)
             r == IF io THEN Resultado(destino, ErroIO) ELSE inserirBatch(destino, batch)
         IN /\ destino' = r.db
            /\ chamadas' = [chamadas EXCEPT ![c] =
                 IF r.erro # SemErro
                 THEN [ch EXCEPT !.pc = "fallback", !.i = 1, !.fallback = TRUE,
                                 !.falhou = @ \/ io, !.resultado = ch.existentesSet]
                 ELSE IF ch.i >= numLotes(Len(ch.pessoas), TamanhoBatch)
                 THEN [ch EXCEPT !.pc = "retornou",
                                 !.resultado = aposBulk(ch.existentesSet, ch.pessoas)]
                 ELSE [ch EXCEPT !.i = @ + 1]]
    /\ UNCHANGED <<origem, erros, passo, ult>>

\* Lines 193-202: the persons one by one; a failed insert is logged and skipped.
PesFallback(c) ==
    /\ chamadas[c].pc = "fallback"
    /\ \E io \in BOOLEAN :
         LET ch == chamadas[c]
             p == ch.pessoas[ch.i]
             fim == IF ch.i >= Len(ch.pessoas) THEN "retornou" ELSE "fallback"
         IN IF io
            THEN /\ destino' = destino
                 /\ chamadas' = [chamadas EXCEPT ![c] =
                       [ch EXCEPT !.pc = fim, !.i = @ + 1, !.falhou = TRUE]]
            ELSE /\ destino' = inserirPessoa(destino, p)
                 /\ chamadas' = [chamadas EXCEPT ![c] =
                       [ch EXCEPT !.pc = fim, !.i = @ + 1, !.resultado = @ \cup {p}]]
    /\ UNCHANGED <<origem, erros, passo, ult>>

NextPessoas ==
    \E c \in Chamadores :
        \/ PesChamar(c)
        \/ PesExistentes(c)
        \/ PesOrigem(c)
        \/ PesBulk(c)
        \/ PesFallback(c)

SpecPessoas == InitPessoas /\ [][NextPessoas]_vars

----------------------------------------------------------------------------
(* reconciliation.js: buscarRegistroOrigem, called by the listener with the *)
(* table and id of a notification.                                          *)

TabelasSuportadas == {"public.demanda", "public.fiscaldemanda"}
TabelasNotificadas == TabelasSuportadas \cup {"public.pessoa", "fiscalizacao.demandas"}
IdsNotificados == DemandaIds \cup {3}

\* SELECT * FROM <table> WHERE id = ...: the rows found.
linhasDaTabela(orig, table, id) ==
    IF table = "public.demanda"
    THEN IF id \in DOMAIN orig.demanda THEN {orig.demanda[id]} ELSE {}
    ELSE {fd \in orig.fiscaldemanda : fd.id = id}

\* Variant: the query runs outside of any try.
buscarRegistroOrigemSemCatch(orig, table, id, io) ==
    IF table \notin TabelasSuportadas
    THEN [retorno |-> <<>>, consultou |-> FALSE, lancou |-> FALSE]
    ELSE IF io THEN [retorno |-> <<>>, consultou |-> TRUE, lancou |-> TRUE]
    ELSE LET resultado == linhasDaTabela(orig, table, id) IN
         [retorno |-> IF resultado = {} THEN <<>> ELSE <<CHOOSE r \in resultado : TRUE>>,
          consultou |-> TRUE, lancou |-> FALSE]

\* What the function returns (the empty list for null, else the one row),
\* whether it sent a query to the source, whether it threw.  With io the query
\* fails.
buscarRegistroOrigem(orig, table, id, io) ==
    IF table \notin TabelasSuportadas
    THEN [retorno |-> <<>>, consultou |-> FALSE, lancou |-> FALSE]
    ELSE IF io THEN [retorno |-> <<>>, consultou |-> TRUE, lancou |-> FALSE]
    ELSE LET resultado == linhasDaTabela(orig, table, id) IN
         [retorno |-> IF resultado = {} THEN <<>> ELSE <<CHOOSE r \in resultado : TRUE>>,
          consultou |-> TRUE, lancou |-> FALSE]

InitBusca ==
    /\ origem \in OrigensReconc
    /\ destino \in {d \in DestinosReconc : d.demandas = TabelaVazia /\ d.demandas_fiscais = {}}
    /\ erros = <<>>
    /\ chamadas = SemChamadas
    /\ passo = PassoParado
    /\ ult = [op |-> "nenhuma"]

BuscarRegistroOrigem ==
    /\ \E table \in TabelasNotificadas, id \in IdsNotificados, io \in BOOLEAN :
         ult' = [op |-> "buscarRegistroOrigem", table |-> table, id |-> id, io |-> io,
                 res |-> buscarRegistroOrigem(origem, table, id, io)]
    /\ UNCHANGED <<origem, destino, erros, chamadas, passo>>

NextBusca == BuscarRegistroOrigem

SpecBusca == InitBusca /\ [][NextBusca]_vars

----------------------------------------------------------------------------
(* A real-time write racing a reconciliation gap write for the same id.     *)
(* The source row changes while both are in flight; estados in `ult` keeps  *)
(* every state the source row has had.                                      *)

\* The demanda both writers handle: the smallest id of the model.
IdCorrida == CHOOSE i \in DemandaIds : \A j \in DemandaIds : i <= j

\* States of the source row public.demanda(id = IdCorrida), all in the window,
\* active or not.
LinhasCorrida ==
    {d \in LinhasOrigem(IdCorrida, {2, 12}, GruposDestino) :
        d.fiscalizado_id \in {NULL} \cup PessoasNaOrigem}

MaxEstados == 2

InitCorrida ==
    /\ \E s \in LinhasCorrida :
         /\ origem = [OrigemVazia EXCEPT !.demanda = (IdCorrida :> s)]
         /\ ult = [op |-> "origem", estados |-> {s}]
    /\ destino \in {d \in DestinosTempoReal : d.demandas = TabelaVazia}
    /\ erros = <<>>
    /\ chamadas = [c \in Chamadores |-> ChamadaLivre]
    /\ passo = PassoParado

\* The application updates the source row.
MudarOrigem ==
    /\ Cardinality(ult.estados) < MaxEstados
    /\ \E s \in LinhasCorrida \ ult.estados :
         /\ origem' = [origem EXCEPT !.demanda[IdCorrida] = s]
         /\ ult' = [ult EXCEPT !.estados = @ \cup {s}]
    /\ UNCHANGED <<destino, erros, chamadas, passo>>

\* The listener hands the handler the source row as it is when the
\* notification is processed.
IniciarDaOrigem(c) ==
    /\ chamadas[c].pc = "livre"
    /\ \E evt \in {"INSERT", "UPDATE"} :
         LET d == origem.demanda[IdCorrida] IN
         chamadas' = [chamadas EXCEPT ![c] =
             [pc |-> "buscarDadosPessoa", event_type |-> evt, data |-> d,
              demandaMapeada |-> mapearDemanda(d, NULL), existe |-> FALSE,
              erro |-> SemErro, tentativa |-> 1,
              tent1 |-> "nenhuma", tent2 |-> "nenhuma", ultimaEscrita |-> "nenhuma",
              registrou |-> FALSE, falhaIO |-> FALSE]]
    /\ UNCHANGED <<origem, destino, erros, passo, ult>>

\* verificarGapsDemandas, lines 107-125: the ids the destination lacks.
RecFaltantes ==
    /\ passo.pc = "parado"
    /\ LET f == faltantesDe(destino, origem) IN
       passo' = [pc |-> IF Len(f) = 0 THEN "fim" ELSE "lerOrigem",
                 faltantes |-> f, demandasOrigem |-> <<>>]
    /\ UNCHANGED <<origem, destino, erros, chamadas, ult>>

\* Lines 162-166: SELECT * FROM public.demanda WHERE id = ANY(idsLote).
RecLerOrigem ==
    /\ passo.pc = "lerOrigem"
    /\ LET encontrados == SelectSeq(passo.faltantes, LAMBDA i : i \in DOMAIN origem.demanda)
       IN passo' = [passo EXCEPT
                       !.demandasOrigem = [j \in DOMAIN encontrados |->
                                              origem.demanda[encontrados[j]]],
                       !.pc = IF Len(encontrados) = 0 THEN "fim" ELSE "preSync"]
    /\ UNCHANGED <<origem, destino, erros, chamadas, ult>>

\* Lines 177-185: the pre-sync of the persons the lote references.
RecPreSync ==
    /\ passo.pc = "preSync"
    /\ LET fiscalizadosIds == {passo.demandasOrigem[j].fiscalizado_id :
                                  j \in DOMAIN passo.demandasOrigem}
           sp == sincronizarPessoasFaltantes(destino, origem, fiscalizadosIds, "nenhuma")
       IN /\ destino' = sp.db
          /\ passo' = [passo EXCEPT !.pc = IF sp.lancou THEN "fim" ELSE "bulk"]
    /\ UNCHANGED <<origem, erros, chamadas, ult>>

\* Lines 187-199: sincronizarDemandasBulk on the rows read at line 162.
RecBulk ==
    /\ passo.pc = "bulk"
    /\ LET demandasParaBulk == [j \in DOMAIN passo.demandasOrigem |->
                                   [data |-> passo.demandasOrigem[j],
                                    dadosPessoa |-> NULL]]
           r == sincronizarDemandasBulk(destino, origem, demandasParaBulk,
                                        [pref |-> ErroFkPessoa, io |-> FALSE])
       IN /\ destino' = r.db
          /\ passo' = [passo EXCEPT !.pc = "escreveu"]
    /\ UNCHANGED <<origem, erros, chamadas, ult>>

NextCorrida ==
    \/ MudarOrigem
    \/ IniciarDaOrigem(1)
    \/ BuscarDadosPessoa(1)
    \/ Selecionar(1)
    \/ Escrever(1)
    \/ GpeVerificar(1)
    \/ GpeBuscar(1)
    \/ GpeInserir(1)
    \/ RecFaltantes
    \/ RecLerOrigem
    \/ RecPreSync
    \/ RecBulk

SpecCorrida == InitCorrida /\ [][NextCorrida]_vars

----------------------------------------------------------------------------
(* scripts/syncFiscalDemanda.js: the periodic pass and its loop.            *)
(* chamadas[k] is run number k of syncFiscalDemanda; passo holds the event  *)
(* loop's side: pending setTimeout callbacks and the runs started so far.   *)

MaxExecucoes == 3
LimiteNovos == 2

Execucoes == 1 .. MaxExecucoes

\* Lines 9-15: the newest active rows of public.fiscaldemanda.
novosRegistros(orig) ==
    LET ativos == {fd \in orig.fiscaldemanda : fd.ativo}
        ids == elementos(limitar(decrescente({fd.id : fd \in ativos}), LimiteNovos))
    IN {fd \in ativos : fd.id \in ids}

\* Variant: the staged rows are inserted without the joins.
vinculosSemJuncoes(db, registros) ==
    db.demandas_fiscais \cup
    {[demanda_id |-> r.demanda_id, fiscal_id |-> r.usuario_id] : r \in registros}

\* Lines 50-63: INSERT ... SELECT with the joins on demandas and fiscais,
\* WHERE NOT EXISTS, ON CONFLICT DO NOTHING.
vinculosSincronizados(db, registros) ==
    db.demandas_fiscais \cup
    {[demanda_id |-> r.demanda_id, fiscal_id |-> r.usuario_id] :
        r \in {x \in registros : /\ x.demanda_id \in DOMAIN db.demandas
                                 /\ x.usuario_id \in db.fiscais}}

ExecucaoNaoIniciada == [pc |-> "naoIniciada", novosRegistros |-> {}, falhou |-> FALSE]

InitPeriodico ==
    /\ origem \in {o \in OrigensReconc : o.demanda = TabelaVazia}
    /\ destino \in {d \in DestinosReconc : d.pessoas = {} /\ d.demandas_fiscais = {}}
    /\ erros = <<>>
    /\ chamadas = [k \in Execucoes |-> ExecucaoNaoIniciada]
    /\ passo = [pc |-> "carregando", timers |-> 0, execucoes |-> 0]
    /\ ult = [op |-> "nenhuma"]

\* loop() up to its await: syncFiscalDemanda() is called and runs to its
\* first await.
chamarLoop(p, chs) ==
    [passo |-> [p EXCEPT !.pc = "loop", !.execucoes = @ + 1],
     chamadas |-> [chs EXCEPT ![p.execucoes + 1].pc = "lerOrigem"]]

\* Variant: the catch of syncFiscalDemanda rethrows, so that the await of
\* loop() throws and setTimeout is not reached.
capturarRelanca(ch) == [ch EXCEPT !.pc = "rejeitou", !.falhou = TRUE]

\* Lines 72-75: the catch logs the error; the function returns normally.
capturar(ch) == [ch EXCEPT !.pc = "retornou", !.falhou = TRUE]

\* Lines 82-88: the immediately invoked loop() at module load.
LoopInicial ==
    /\ passo.pc = "carregando"
    /\ LET r == chamarLoop(passo, chamadas) IN
       /\ passo' = r.passo
       /\ chamadas' = r.chamadas
    /\ UNCHANGED <<origem, destino, erros, ult>>

\* A pending setTimeout callback fires: loop() is called again.
Temporizador ==
    /\ passo.timers > 0
    /\ passo.execucoes < MaxExecucoes
    /\ LET r == chamarLoop([passo EXCEPT !.timers = @ - 1], chamadas) IN
       /\ passo' = r.passo
       /\ chamadas' = r.chamadas
    /\ UNCHANGED <<origem, destino, erros, ult>>

\* Lines 9-20: the source read; nothing to do when it returns no row.
SyncLerOrigem(k) ==
    /\ chamadas[k].pc = "lerOrigem"
    /\ \E io \in BOOLEAN :
         LET regs == novosRegistros(origem) IN
         chamadas' = [chamadas EXCEPT ![k] =
             IF io THEN capturar(@)
             ELSE IF regs = {} THEN [@ EXCEPT !.pc = "retornou"]
             ELSE [@ EXCEPT !.pc = "transacao", !.novosRegistros = regs]]
    /\ UNCHANGED <<origem, destino, erros, passo, ult>>

\* Lines 25-64: the transaction at the destination, committed or rolled back.
SyncTransacao(k) ==
    /\ chamadas[k].pc = "transacao"
    /\ \E io \in BOOLEAN :
         IF io
         THEN /\ chamadas' = [chamadas EXCEPT ![k] = capturar(@)]
              /\ UNCHANGED destino
         ELSE /\ chamadas' = [chamadas EXCEPT ![k].pc = "retornou"]
              /\ destino' = [destino EXCEPT !.demandas_fiscais =
                                vinculosSincronizados(destino, chamadas[k].novosRegistros)]
    /\ UNCHANGED <<origem, erros, passo, ult>>

\* Lines 84-87: the await of loop() resumes and setTimeout(loop) is called.
Agendar(k) ==
    /\ chamadas[k].pc = "retornou"
    /\ chamadas' = [chamadas EXCEPT ![k].pc = "agendou"]
    /\ passo' = [passo EXCEPT !.timers = @ + 1]
    /\ UNCHANGED <<origem, destino, erros, ult>>

NextPeriodico ==
    \/ LoopInicial
    \/ Temporizador
    \/ \E k \in Execucoes :
          \/ SyncLerOrigem(k)
          \/ SyncTransacao(k)
          \/ Agendar(k)

\* The event loop runs every callback that is ready and every await that has
\* settled.
SpecPeriodico == InitPeriodico /\ [][NextPeriodico]_vars /\ WF_vars(NextPeriodico)

----------------------------------------------------------------------------
(* The two writers of fiscalizacao.demandas_fiscais: the periodic script    *)
(* and the fiscal-demanda phase of the middleware's reconciliation, run by  *)
(* two processes against the same databases.                                *)

InitVinculos ==
    /\ origem \in {o \in OrigensReconc : o.demanda = TabelaVazia}
    /\ \E d \in DestinosReconc :
       \E fs \in SUBSET d.fiscais :
         /\ d.pessoas = {}
         /\ d.demandas_fiscais = {}
         /\ destino = [d EXCEPT !.fiscais = fs]
    /\ erros = <<>>
    /\ chamadas = [k \in Execucoes |-> ExecucaoNaoIniciada]
    /\ passo = [pc |-> "carregando", timers |-> 0, execucoes |-> 0]
    /\ ult = [op |-> "nenhuma"]

\* verificarGaps, line 79, in the middleware process.
ReconcFiscalDemanda ==
    /\ \E io \in BOOLEAN :
         destino' = verificarGapsFiscalDemanda(destino, origem, io)
    /\ destino' # destino
    /\ UNCHANGED <<origem, erros, chamadas, passo, ult>>

NextVinculos == NextPeriodico \/ ReconcFiscalDemanda

SpecVinculos == InitVinculos /\ [][NextVinculos]_vars

----------------------------------------------------------------------------
(* Graceful shutdown (README) and fecharConexoes (config).                  *)
(* chamadas[c] is a record application started by the listener callback,    *)
(* as the list of the clients its remaining statements go to; passo is the  *)
(* process: the shutdown handler's position, the reconciliation cron, the   *)
(* listener and the two clients.  A client whose end() has been called      *)
(* rejects every statement sent to it afterwards.                           *)

\* The listener callback as the clients its statements use: the fetch of
\* buscarRegistroOrigem, then sincronizarDemanda, either the plain write
\* (person data read, write) or the repair of a missing person (person data
\* read, rejected write, garantirPessoaExiste's destination read, source read
\* and insert, second write).
PlanosDeAplicacao ==
    {<<"origem", "destino", "destino">>,
     <<"origem", "destino", "destino", "destino", "origem", "destino", "destino">>}

ProcessoServindo ==
    [pc |-> "servindo", cron |-> TRUE, ouvindo |-> TRUE,
     origem |-> "aberta", destino |-> "aberta"]

InitEncerramento ==
    /\ origem = OrigemVazia
    /\ destino \in {d \in DestinosTempoReal : d.demandas = TabelaVazia /\ d.pessoas = {}}
    /\ erros = <<>>
    /\ chamadas = [c \in Chamadores |-> ChamadaLivre]
    /\ passo = ProcessoServindo
    /\ ult = [op |-> "nenhuma"]

\* The listener callback: a notification is accepted and its application
\* starts.
Notificar(c) ==
    /\ passo.ouvindo
    /\ chamadas[c].pc = "livre"
    /\ \E plano \in PlanosDeAplicacao :
         chamadas' = [chamadas EXCEPT ![c] =
                         [pc |-> "aplicando", restantes |-> plano,
                          aceitaEm |-> passo.pc]]
    /\ UNCHANGED <<origem, destino, erros, passo, ult>>

\* The next statement of an application: it is rejected when end() has been
\* called on its client, and the application throws.
Aplicar(c) ==
    /\ chamadas[c].pc = "aplicando"
    /\ LET ch == chamadas[c]
           cliente == Head(ch.restantes)
       IN chamadas' = [chamadas EXCEPT ![c] =
              IF passo[cliente] # "aberta" THEN [ch EXCEPT !.pc = "interrompida"]
              ELSE IF Len(ch.restantes) = 1
              THEN [ch EXCEPT !.pc = "terminou", !.restantes = <<>>]
              ELSE [ch EXCEPT !.restantes = Tail(@)]]
    /\ UNCHANGED <<origem, destino, erros, passo, ult>>

\* shutdown() up to its first await: pararCronReconciliacao(), then
\* fecharConexoes() calls dbOrigem.end(), which ends the listener's
\* connection at once.
sinalRecebido(p) ==
    [p EXCEPT !.pc = "fechandoOrigem", !.cron = FALSE, !.ouvindo = FALSE,
              !.origem = "encerrando"]

\* process.on("SIGINT" / "SIGTERM", shutdown)
Shutdown ==
    /\ passo.pc = "servindo"
    /\ passo' = sinalRecebido(passo)
    /\ UNCHANGED <<origem, destino, erros, chamadas, ult>>

\* await dbOrigem.end() settles; on success dbDestino.end() is called, on
\* failure the catch of fecharConexoes rethrows and shutdown() ends there.
OrigemFechou ==
    /\ passo.pc = "fechandoOrigem"
    /\ \E falha \in BOOLEAN :
         passo' = IF falha THEN [passo EXCEPT !.pc = "falhou"]
                  ELSE [passo EXCEPT !.pc = "fechandoDestino", !.origem = "fechada",
                                     !.destino = "encerrando"]
    /\ UNCHANGED <<origem, destino, erros, chamadas, ult>>

\* await dbDestino.end() settles; on success process.exit(0).
DestinoFechou ==
    /\ passo.pc = "fechandoDestino"
    /\ \E falha \in BOOLEAN :
         passo' = IF falha THEN [passo EXCEPT !.pc = "falhou"]
                  ELSE [passo EXCEPT !.pc = "saiu", !.destino = "fechada"]
    /\ UNCHANGED <<origem, destino, erros, chamadas, ult>>

NextEncerramento ==
    \/ Shutdown
    \/ OrigemFechou
    \/ DestinoFechou
    \/ \E c \in Chamadores : Notificar(c) \/ Aplicar(c)

SpecEncerramento == InitEncerramento /\ [][NextEncerramento]_vars

----------------------------------------------------------------------------
(* verificarGapsFiscalOperacao: the fiscal-operacao phase.  In this         *)
(* specification origem holds public.fiscaloperacao and destino holds       *)
(* fiscalizacao.fiscaloperacao, seguranca.usuarios and fiscalizacao.operacao.*)

UsuarioIds == {1, 2}
OperacaoIds == {1, 2}

\* Rows of public.fiscaloperacao.
LinhasFiscalOperacao ==
    {[id |-> 1, ativo |-> TRUE, usuario_id |-> 1, operacao_id |-> 1],
     [id |-> 2, ativo |-> TRUE, usuario_id |-> 2, operacao_id |-> 1],
     [id |-> 3, ativo |-> TRUE, usuario_id |-> 1, operacao_id |-> 2],
     [id |-> 4, ativo |-> FALSE, usuario_id |-> 1, operacao_id |-> 1]}

fkValidas(db, r) == r.usuario_id \in db.usuarios /\ r.operacao_id \in db.operacao

\* Lines 539-563: the active source rows whose id the destination lacks.
faltantesFiscalOperacao(db, orig) ==
    LET registrosAtivos == {r \in orig.fiscaloperacao : r.ativo}
        idsDestino == {r.id : r \in db.fiscaloperacao}
    IN {r \in registrosAtivos : r.id \notin idsDestino}

\* Lines 606-618: INSERT ... SELECT FROM temp_fiscaloperacao_sync WHERE EXISTS
\* (usuario) AND EXISTS (operacao) ON CONFLICT (id) DO NOTHING; the rows it
\* inserts.
inseridasFiscalOperacao(db, staged) ==
    {r \in staged : fkValidas(db, r) /\ r.id \notin {x.id : x \in db.fiscaloperacao}}

\* Line 620: sincronizados = result.count || faltantes.length.
contagemRelatada(count, nFaltantes) == IF count # 0 THEN count ELSE nFaltantes

\* The phase; falha is a failed statement, caught at lines 625-628 or 641-643.
verificarGapsFiscalOperacao(db, orig, falha) ==
    LET faltantes == faltantesFiscalOperacao(db, orig)
        novas == inseridasFiscalOperacao(db, faltantes)
    IN IF falha = "leitura" \/ faltantes = {}
       THEN [db |-> db, sincronizados |-> 0, erros |-> 0, faltantes |-> faltantes]
       ELSE IF falha = "escrita"
       THEN [db |-> db, sincronizados |-> 0, erros |-> Cardinality(faltantes),
             faltantes |-> faltantes]
       ELSE [db |-> [db EXCEPT !.fiscaloperacao = @ \cup novas],
             sincronizados |-> contagemRelatada(Cardinality(novas), Cardinality(faltantes)),
             erros |-> 0, faltantes |-> faltantes]

InitFiscalOperacao ==
    /\ \E linhas \in SUBSET LinhasFiscalOperacao :
         origem = [fiscaloperacao |-> linhas]
    /\ \E us \in SUBSET UsuarioIds, ops \in SUBSET OperacaoIds :
         \E antigas \in SUBSET {r \in LinhasFiscalOperacao :
                                   r.usuario_id \in us /\ r.operacao_id \in ops} :
            destino = [fiscaloperacao |-> antigas, usuarios |-> us, operacao |-> ops]
    /\ erros = <<>>
    /\ chamadas = SemChamadas
    /\ passo = PassoParado
    /\ ult = [op |-> "nenhuma"]

VerificarGapsFiscalOperacao ==
    /\ ult.op = "nenhuma"
    /\ \E falha \in {"nenhuma", "leitura", "escrita"} :
         LET r == verificarGapsFiscalOperacao(destino, origem, falha) IN
         /\ destino' = r.db
         /\ ult' = [op |-> "verificarGapsFiscalOperacao", antes |-> destino,
                    falha |-> falha, faltantes |-> r.faltantes,
                    sincronizados |-> r.sincronizados, erros |-> r.erros]
    /\ UNCHANGED <<origem, erros, chamadas, passo>>

NextFiscalOperacao == VerificarGapsFiscalOperacao

SpecFiscalOperacao == InitFiscalOperacao /\ [][NextFiscalOperacao]_vars

----------------------------------------------------------------------------
(* One lote of sincronizarDemandasExistentes: the rows the destination      *)
(* query returns fit in one lote, as they do while they are fewer than      *)
(* LOTE_SIZE.                                                               *)

ExistentesUmLote ==
    /\ ult.op = "nenhuma"
    /\ \E falha \in FalhasExistentes :
         LET idsLote == demandasDestino(destino)
             r == existentesLote(destino, origem, idsLote, falha)
         IN /\ destino' = r.db
            /\ ult' = [op |-> "existentesLote", antes |-> destino, idsLote |-> idsLote,
                       falha |-> falha, erros |-> r.erros]
    /\ UNCHANGED <<origem, erros, chamadas, passo>>

NextLoteExistentes == ExistentesUmLote

SpecLoteExistentes == InitReconc /\ [][NextLoteExistentes]_vars

----------------------------------------------------------------------------
(* sincronizarDemandasOrigem: the staged bulk write of the reconciliation.  *)
(* dbDestino is a pool and the routine opens no transaction and reserves no *)
(* connection, so the pool hands each of the four statements of a lote to   *)
(* whichever connection is free while the listener's handlers use the same  *)
(* pool.  A temporary table belongs to the connection that created it.      *)

NumConexoes == 2
Conexoes == 1..NumConexoes
LimiteOrigem == 2
LoteOrigem == 1

\* A connection without temp_demandas_sync, and the error of a statement on it.
SemTabela == [existe |-> FALSE, linhas |-> {}]
comTabela(linhas) == [existe |-> TRUE, linhas |-> linhas]
ErroSemTabela == "relation temp_demandas_sync does not exist"

\* SELECT * FROM public.demanda WHERE situacao IN (2, 11, 12) ORDER BY id DESC LIMIT
demandasOrigemIds(orig) ==
    limitar(decrescente({i \in DOMAIN orig.demanda :
                            orig.demanda[i].situacao \in SituacoesJanela}),
            LimiteOrigem)

\* dadosMapeados of a lote: mapearDemanda(d, null) of each of its source rows.
dadosMapeados(orig, idsLote) ==
    {mapearDemanda(orig.demanda[idsLote[j]], NULL) : j \in DOMAIN idsLote}

\* ON CONFLICT (id) DO UPDATE SET of the final statement.
conflitoStaging(atual, nova) ==
    [atual EXCEPT !.situacao_id = nova.situacao_id,
                  !.fiscalizado_id = nova.fiscalizado_id,
                  !.fiscalizado_nome = nova.fiscalizado_nome,
                  !.fiscalizado_demanda = nova.fiscalizado_demanda,
                  !.classificacao = nova.classificacao,
                  !.ativo = nova.ativo]

\* SELECT id, situacao_id, NULL, NULL, ... FROM temp_demandas_sync
selecionadas(tabela) == {[r EXCEPT !.motivo_id = NULL, !.fiscal_id = NULL] : r \in tabela}

\* INSERT INTO fiscalizacao.demandas ... SELECT ... FROM temp_demandas_sync ON
\* CONFLICT: one statement over the rows of the connection's table.
mesclarStaging(db, tabela) ==
    LET linhas == selecionadas(tabela)
        ids == {r.id : r \in linhas}
        linhaDe(i) == CHOOSE r \in linhas : r.id = i
        viol == UNION {violacoes(db, r) : r \in linhas}
    IN IF viol # {} THEN Resultado(db, erroRelatado(viol, ""))
       ELSE Resultado([db EXCEPT !.demandas =
                          [i \in DOMAIN db.demandas \cup ids |->
                              IF i \notin ids THEN db.demandas[i]
                              ELSE IF i \in DOMAIN db.demandas
                                   THEN conflitoStaging(db.demandas[i], linhaDe(i))
                                   ELSE linhaDe(i)]],
                      SemErro)

idsDoLote(p) == loteDe(p.ids, p.lote, LoteOrigem)

\* The for loop moves to the next lote, or the routine ends.
proximoLote(p) ==
    IF p.lote < numLotes(Len(p.ids), LoteOrigem)
    THEN [p EXCEPT !.pc = "presync", !.lote = @ + 1]
    ELSE [p EXCEPT !.pc = "fim"]

\* catch of the lote: errosTotal += lote.length
loteFalhou(p) ==
    proximoLote([p EXCEPT !.errosTotal = @ + Len(idsDoLote(p))])

InitStaging ==
    /\ origem \in {o \in OrigensReconc : o.fiscaldemanda = {}}
    /\ destino \in {d \in DestinosReconc : d.demandas_fiscais = {}}
    /\ erros = <<>>
    /\ chamadas = SemChamadas
    /\ passo = [pc |-> "parado", ids |-> <<>>, lote |-> 0,
                sessoes |-> [c \in Conexoes |-> SemTabela],
                sincronizadosTotal |-> 0, errosTotal |-> 0]
    /\ ult = [op |-> "nenhuma"]

\* Lines 706-716: the source query; its failure ends the routine in the outer catch.
StgLerOrigem ==
    /\ passo.pc = "parado"
    /\ \E io \in BOOLEAN :
         LET ids == demandasOrigemIds(origem) IN
         passo' = IF io \/ Len(ids) = 0 THEN [passo EXCEPT !.pc = "fim"]
                  ELSE [passo EXCEPT !.pc = "presync", !.ids = ids, !.lote = 1]
    /\ UNCHANGED <<origem, destino, erros, chamadas, ult>>

\* Lines 742-748: the pre-sync of the lote's persons, outside the lote's try.
StgPreSync ==
    /\ passo.pc = "presync"
    /\ \E falha \in {"nenhuma", "pessoas", "lanca"} :
         LET idsLote == idsDoLote(passo)
             r == sincronizarPessoasFaltantes(destino, origem,
                     {origem.demanda[idsLote[j]].fiscalizado_id : j \in DOMAIN idsLote},
                     falha)
         IN /\ destino' = r.db
            /\ passo' = IF r.lancou THEN [passo EXCEPT !.pc = "fim"]
                        ELSE [passo EXCEPT !.pc = "create"]
    /\ UNCHANGED <<origem, erros, chamadas, ult>>

\* Lines 781-805: CREATE TEMP TABLE IF NOT EXISTS, on connection c.
StgCreate(c) ==
    /\ passo.pc = "create"
    /\ passo' = [passo EXCEPT !.pc = "truncate",
                              !.sessoes[c] = IF @.existe THEN @ ELSE comTabela({})]
    /\ UNCHANGED <<origem, destino, erros, chamadas, ult>>

\* Line 808: TRUNCATE temp_demandas_sync, on connection c.
StgTruncate(c) ==
    /\ passo.pc = "truncate"
    /\ passo' = IF ~passo.sessoes[c].existe THEN loteFalhou(passo)
                ELSE [passo EXCEPT !.pc = "insert", !.sessoes[c] = comTabela({})]
    /\ UNCHANGED <<origem, destino, erros, chamadas, ult>>

\* Lines 811-837: INSERT INTO temp_demandas_sync, on connection c.
StgInsert(c) ==
    /\ passo.pc = "insert"
    /\ LET novas == dadosMapeados(origem, idsDoLote(passo))
           tabela == passo.sessoes[c]
       IN passo' = IF ~tabela.existe THEN loteFalhou(passo)
                   ELSE IF \E r \in tabela.linhas, n \in novas : r.id = n.id
                   THEN loteFalhou(passo)
                   ELSE [passo EXCEPT !.pc = "merge", !.sessoes[c] = comTabela(tabela.linhas \cup novas)]
    /\ UNCHANGED <<origem, destino, erros, chamadas, ult>>

\* Lines 840-874: the final INSERT ... SELECT, on connection c.  lidas is what
\* the statement found as temp_demandas_sync.
StgMerge(c) ==
    /\ passo.pc = "merge"
    /\ LET tabela == passo.sessoes[c]
           r == IF ~tabela.existe THEN Resultado(destino, ErroSemTabela)
                ELSE mesclarStaging(destino, tabela.linhas)
       IN /\ destino' = r.db
          /\ passo' = IF r.erro = SemErro
                      THEN proximoLote([passo EXCEPT !.sincronizadosTotal =
                                                        @ + Len(idsDoLote(passo))])
                      ELSE loteFalhou(passo)
          /\ ult' = [op |-> "mesclar", lote |-> passo.lote, conexao |-> c,
                     mapeadas |-> dadosMapeados(origem, idsDoLote(passo)),
                     lidas |-> tabela, antes |-> destino, erro |-> r.erro]
    /\ UNCHANGED <<origem, erros, chamadas>>

NextStaging ==
    \/ StgLerOrigem
    \/ StgPreSync
    \/ \E c \in Conexoes : StgCreate(c)
    \/ \E c \in Conexoes : StgTruncate(c)
    \/ \E c \in Conexoes : StgInsert(c)
    \/ \E c \in Conexoes : StgMerge(c)

SpecStaging == InitStaging /\ [][NextStaging]_vars

----------------------------------------------------------------------------
(* verificarGapsOperacoes: the missing operações are inserted one statement *)
(* each inside one dbDestino.begin transaction.                             *)

\* nome of a source row: NomeNulo stands for a NULL column.
NomeNulo == "null"
NomesOperacao == {NomeNulo, "n"}

\* Rows of public.operacao with id i.
LinhasOperacao(i) == [id : {i}, ativo : BOOLEAN, nome : NomesOperacao]

\* VALUES (...) of the insert: ativo ?? true, nome || ''
operacaoInserida(op) ==
    [id |-> op.id, ativo |-> op.ativo, nome |-> IF op.nome = NomeNulo THEN "" ELSE op.nome]

\* Active source operações the destination lacks.
faltantesOperacoes(db, orig) ==
    {op \in orig.operacao : op.ativo /\ op.id \notin DOMAIN db.operacao}

\* The transaction: every statement applied, or, when the statement of
\* falhaEm rejects, the callback rejects and begin rolls all of them back.
transacaoOperacoes(db, faltantes, falhaEm) ==
    IF falhaEm # NULL THEN Resultado(db, ErroOutra)
    ELSE Resultado([db EXCEPT !.operacao =
                       [i \in DOMAIN db.operacao \cup {op.id : op \in faltantes} |->
                           IF i \in DOMAIN db.operacao THEN db.operacao[i]
                           ELSE operacaoInserida(CHOOSE op \in faltantes : op.id = i)]],
                   SemErro)

\* leitura: one of the two SELECTs failed and the outer catch logged it.
verificarGapsOperacoes(db, orig, leitura, falhaEm) ==
    LET faltantes == faltantesOperacoes(db, orig)
        r == transacaoOperacoes(db, faltantes, falhaEm)
    IN IF leitura \/ faltantes = {}
       THEN [db |-> db, faltantes |-> {}, sincronizados |-> 0, erros |-> 0]
       ELSE [db |-> r.db, faltantes |-> {op.id : op \in faltantes},
             sincronizados |-> IF r.erro = SemErro THEN Cardinality(faltantes) ELSE 0,
             erros |-> IF r.erro = SemErro THEN 0 ELSE Cardinality(faltantes)]

InitOperacoes ==
    /\ \E S \in SUBSET OperacaoIds :
         \E t \in [S -> UNION {LinhasOperacao(i) : i \in S}] :
            /\ \A i \in S : t[i].id = i
            /\ origem = [operacao |-> {t[i] : i \in S}]
    /\ \E S \in SUBSET OperacaoIds :
         \E t \in [S -> UNION {LinhasOperacao(i) : i \in S}] :
            /\ \A i \in S : t[i].id = i /\ t[i].nome # NomeNulo
            /\ destino = [operacao |-> t]
    /\ erros = <<>>
    /\ chamadas = SemChamadas
    /\ passo = PassoParado
    /\ ult = [op |-> "nenhuma"]

VerificarGapsOperacoes ==
    /\ ult.op = "nenhuma"
    /\ \E leitura \in BOOLEAN :
       \E falhaEm \in {NULL} \cup {op.id : op \in faltantesOperacoes(destino, origem)} :
         LET r == verificarGapsOperacoes(destino, origem, leitura, falhaEm) IN
         /\ destino' = r.db
         /\ ult' = [op |-> "verificarGapsOperacoes", antes |-> destino,
                    leitura |-> leitura, falhaEm |-> falhaEm, faltantes |-> r.faltantes,
                    sincronizados |-> r.sincronizados, erros |-> r.erros]
    /\ UNCHANGED <<origem, erros, chamadas, passo>>

NextOperacoes == VerificarGapsOperacoes

SpecOperacoes == InitOperacoes /\ [][NextOperacoes]_vars

----------------------------------------------------------------------------
(* One call of sincronizarDemandasBulk on any batch, the empty one included *)
(* (a missing batch takes the same return), the bulk statement failing on a *)
(* constraint, on a lost connection, or not at all.                         *)

BulkLote ==
    /\ ult.op = "nenhuma"
    /\ \E lote \in LotesEscrita \cup {<<>>}, pref \in Prefs, io \in BOOLEAN :
         /\ \A j, k \in DOMAIN lote : j # k => lote[j].data.id # lote[k].data.id
         /\ LET r == sincronizarDemandasBulk(destino, origem, lote,
                                             [pref |-> pref, io |-> io])
            IN /\ destino' = r.db
               /\ ult' = [op |-> "bulkLote", lote |-> lote, io |-> io,
                          antes |-> destino, sucesso |-> r.sucesso, erros |-> r.erros,
                          falhas |-> r.falhas]
    /\ UNCHANGED <<origem, erros, chamadas, passo>>

NextLoteBulk == BulkLote

SpecLoteBulk == InitEscrita /\ [][NextLoteBulk]_vars

----------------------------------------------------------------------------
(* sincronizarDemanda run from its first to its last statement with no      *)
(* other writer in between and no lost connection.                          *)

\* The write of lines 26-36 and of the retry of lines 50-54; the retry has no
\* branch for DELETE.
escritaDoEvento(db, event_type, demandaMapeada, id, pref, retentativa) ==
    IF event_type = "INSERT" THEN inserirDemanda(db, demandaMapeada, pref)
    ELSE IF event_type = "UPDATE" THEN atualizarDemanda(db, demandaMapeada, pref)
    ELSE IF retentativa THEN Resultado(db, SemErro)
    ELSE deletarDemanda(db, id)

\* demandaMapeada is computed once, before the first attempt, and the retry
\* writes the same record.
sincronizarDemandaSeq(db, orig, event_type, data, pref) ==
    LET dadosPessoa == IF data.fiscalizado_id # NULL
                       THEN buscarDadosPessoa(db, data.fiscalizado_id) ELSE NULL
        demandaMapeada == mapearDemanda(data, dadosPessoa)
        r1 == escritaDoEvento(db, event_type, demandaMapeada, data.id, pref, FALSE)
    IN IF r1.erro = SemErro THEN [db |-> r1.db, erro |-> SemErro, retentou |-> FALSE]
       ELSE IF incluiFkPessoa(r1.erro) /\ data.fiscalizado_id # NULL
       THEN LET g == garantirPessoaExiste(r1.db, orig, data.fiscalizado_id) IN
            IF g.ok
            THEN LET r2 == escritaDoEvento(g.db, event_type, demandaMapeada, data.id,
                                           pref, TRUE)
                 IN [db |-> r2.db, erro |-> r2.erro, retentou |-> TRUE]
            ELSE [db |-> g.db, erro |-> r1.erro, retentou |-> FALSE]
       ELSE [db |-> r1.db, erro |-> r1.erro, retentou |-> FALSE]

EventosDeEscrita == {"INSERT", "UPDATE"}

outroEvento(event_type) == IF event_type = "INSERT" THEN "UPDATE" ELSE "INSERT"

\* One event handled; outro is what the other event type would have left from
\* the same destination with the same source row.
TratarEvento ==
    /\ ult.op = "nenhuma"
    /\ \E evt \in EventosDeEscrita, i \in DemandaIds, pref \in Prefs :
         \E d \in LinhasEscrita(i) :
            LET r == sincronizarDemandaSeq(destino, origem, evt, d, pref)
                o == sincronizarDemandaSeq(destino, origem, outroEvento(evt), d, pref)
            IN /\ destino' = r.db
               /\ ult' = [op |-> "sincronizarDemanda", event_type |-> evt, data |-> d,
                          antes |-> destino, erro |-> r.erro, retentou |-> r.retentou,
                          outro |-> [demandas |-> o.db.demandas, erro |-> o.erro]]
    /\ UNCHANGED <<origem, erros, chamadas, passo>>

NextEvento == TratarEvento

SpecEvento == InitEscrita /\ [][NextEvento]_vars

----------------------------------------------------------------------------
(* verificarGapsFiscalDemanda with fiscalizacao.demandas_fiscais as a list  *)
(* of rows, so that a second row for a pair is a state the model can tell   *)
(* from the first.  The pass runs up to MaxPassagens times on one source.   *)

MaxPassagens == 2

\* Rows of public.fiscaldemanda: two active rows for the pair (1, 1), a row of
\* demanda 2, a row of a fiscal that may be missing, an inactive row.
LinhasFiscalDemanda ==
    {[id |-> 1, demanda_id |-> 1, usuario_id |-> 1, ativo |-> TRUE],
     [id |-> 2, demanda_id |-> 1, usuario_id |-> 1, ativo |-> TRUE],
     [id |-> 3, demanda_id |-> 2, usuario_id |-> 1, ativo |-> TRUE],
     [id |-> 4, demanda_id |-> 1, usuario_id |-> 2, ativo |-> TRUE],
     [id |-> 5, demanda_id |-> 2, usuario_id |-> 2, ativo |-> FALSE]}

\* origemRegistros in the order of ORDER BY fd.id DESC, mapped to
\* (demanda_id, fiscal_id) as dadosParaInserir.
dadosParaInserir(registros) ==
    LET ids == decrescente({fd.id : fd \in registros})
        linha(i) == CHOOSE fd \in registros : fd.id = i
    IN [k \in DOMAIN ids |-> [demanda_id |-> linha(ids[k]).demanda_id,
                              fiscal_id |-> linha(ids[k]).usuario_id]]

\* Variant: the statement without ON CONFLICT (demanda_id, fiscal_id) DO NOTHING.
RECURSIVE inserirVinculosSemConflito(_, _, _, _)
inserirVinculosSemConflito(db, visto, dados, k) ==
    IF k > Len(dados) THEN db
    ELSE LET t == dados[k]
             entra == /\ t.demanda_id \in DOMAIN db.demandas
                      /\ t.fiscal_id \in db.fiscais
                      /\ t \notin elementos(visto)
         IN inserirVinculosSemConflito(
                IF entra THEN [db EXCEPT !.demandas_fiscais = Append(@, t)] ELSE db,
                visto, dados, k + 1)

\* INSERT INTO fiscalizacao.demandas_fiscais ... SELECT: the joins and the NOT
\* EXISTS see the table as the statement found it (visto); ON CONFLICT sees
\* the rows the statement has inserted so far as well.
RECURSIVE inserirVinculos(_, _, _, _)
inserirVinculos(db, visto, dados, k) ==
    IF k > Len(dados) THEN db
    ELSE LET t == dados[k]
             entra == /\ t.demanda_id \in DOMAIN db.demandas
                      /\ t.fiscal_id \in db.fiscais
                      /\ t \notin elementos(visto)
                      /\ t \notin elementos(db.demandas_fiscais)
         IN inserirVinculos(
                IF entra THEN [db EXCEPT !.demandas_fiscais = Append(@, t)] ELSE db,
                visto, dados, k + 1)

FalhasFiscalDemanda == {"nenhuma", "leitura", "temporaria", "insercao"}

\* The pass; a failure inside dbDestino.begin rolls the transaction back and
\* the catch logs it.
reconciliarFiscalDemanda(db, orig, falha) ==
    LET demandasIds == demandasAtivasDestino(db)
        registros == origemRegistros(orig, demandasIds)
    IN IF falha = "leitura" \/ demandasIds = {} \/ registros = {} THEN db
       ELSE IF falha # "nenhuma" THEN db
       ELSE inserirVinculos(db, db.demandas_fiscais, dadosParaInserir(registros), 1)

\* Link tables without a repeated pair, as the unique constraint keeps them.
VinculosIniciais(demandas, fiscais) ==
    {<<>>} \cup
    {<<[demanda_id |-> d, fiscal_id |-> f]>> : d \in demandas, f \in fiscais}

InitFiscalDemanda ==
    /\ \E fds \in SUBSET LinhasFiscalDemanda :
         origem = [demanda |-> TabelaVazia, pessoa |-> PessoasNaOrigem, fiscaldemanda |-> fds]
    /\ \E S \in SUBSET DemandaIds, fs \in SUBSET UsuarioIds :
         \E t \in [S -> UNION {LinhasAntigas(i) : i \in S}] :
            /\ \A i \in S : t[i].id = i
            /\ \E dfs \in VinculosIniciais(S, fs) :
                 destino = [demandas |-> t, pessoas |-> {}, fiscais |-> fs,
                            demandas_fiscais |-> dfs]
    /\ erros = <<>>
    /\ chamadas = SemChamadas
    /\ passo = [pc |-> "parado", passagens |-> 0]
    /\ ult = [op |-> "nenhuma"]

PassagemFiscalDemanda ==
    /\ passo.passagens < MaxPassagens
    /\ \E falha \in FalhasFiscalDemanda :
         LET db == reconciliarFiscalDemanda(destino, origem, falha) IN
         /\ destino' = db
         /\ ult' = [op |-> "verificarGapsFiscalDemanda", antes |-> destino,
                    falha |-> falha,
                    anterior |-> IF ult.op = "nenhuma" THEN "primeira" ELSE ult.falha,
                    inseridasAntes |-> IF ult.op = "nenhuma" THEN 0 ELSE ult.inseridas,
                    inseridas |-> Len(db.demandas_fiscais) - Len(destino.demandas_fiscais)]
    /\ passo' = [passo EXCEPT !.passagens = @ + 1]
    /\ UNCHANGED <<origem, erros, chamadas>>

NextFiscalDemanda == PassagemFiscalDemanda

SpecFiscalDemanda == InitFiscalDemanda /\ [][NextFiscalDemanda]_vars

----------------------------------------------------------------------------
(* The incremental syncFiscalDemanda script: a loop of runs, each reading   *)
(* the source rows above the largest id_origem of the destination.  No      *)
(* statement fails for a lost connection here: every run does what its code *)
(* does on a working database.                                              *)

LimiteIncremental == 2

\* SELECT COALESCE(MAX(id_origem), 0) FROM fiscalizacao.demandas_fiscais
ultimoIdOrigem(db) ==
    IF db.demandas_fiscais = {} THEN 0
    ELSE maior({df.id_origem : df \in db.demandas_fiscais})

\* WHERE ativo = true AND id > lastId ORDER BY id ASC LIMIT
novosIncrementais(orig, lastId) ==
    LET ids == limitar(crescente({fd.id : fd \in {x \in orig.fiscaldemanda :
                                                     x.ativo /\ x.id > lastId}}),
                       LimiteIncremental)
        linha(i) == CHOOSE fd \in orig.fiscaldemanda : fd.id = i
    IN [k \in DOMAIN ids |-> linha(ids[k])]

\* Variant: the temporary table lasts until the connection closes.
temporariaAposCriarPermanece(emTransacao) == comTabela({})

\* CREATE TEMP TABLE ... ON COMMIT DROP: the table is dropped when the
\* transaction of the statement commits.  Sent through dbDestino outside
\* dbDestino.begin, the statement is its own transaction.
temporariaAposCriar(emTransacao) ==
    IF emTransacao THEN comTabela({}) ELSE SemTabela

\* INSERT INTO fiscalizacao.demandas_fiscais ... SELECT ... FROM tmp_sync_fiscal
RECURSIVE inserirIncrementais(_, _, _, _)
inserirIncrementais(db, visto, registros, k) ==
    IF k > Len(registros) THEN db
    ELSE LET t == registros[k]
             par(df) == df.demanda_id = t.demanda_id /\ df.fiscal_id = t.usuario_id
             entra == /\ t.demanda_id \in DOMAIN db.demandas
                      /\ t.usuario_id \in db.fiscais
                      /\ ~\E df \in visto : par(df)
                      /\ ~\E df \in db.demandas_fiscais : par(df)
         IN inserirIncrementais(
                IF entra
                THEN [db EXCEPT !.demandas_fiscais =
                         @ \cup {[demanda_id |-> t.demanda_id, fiscal_id |-> t.usuario_id,
                                  id_origem |-> t.id]}]
                ELSE db,
                visto, registros, k + 1)

\* One run of syncFiscalDemanda, lines 6-66.
syncIncremental(db, orig) ==
    LET registrosNovos == novosIncrementais(orig, ultimoIdOrigem(db))
        temporaria == temporariaAposCriar(FALSE)
    IN IF Len(registrosNovos) = 0 THEN db
       ELSE IF ~temporaria.existe THEN db
       ELSE inserirIncrementais(db, db.demandas_fiscais, registrosNovos, 1)

\* Links an earlier run may have inserted from the source rows.
VinculosDeOrigem(fds, demandas, fiscais) ==
    {[demanda_id |-> fd.demanda_id, fiscal_id |-> fd.usuario_id, id_origem |-> fd.id] :
        fd \in {x \in fds : x.demanda_id \in demandas /\ x.usuario_id \in fiscais}}

InitIncremental ==
    /\ \E fds \in SUBSET LinhasFiscalDemanda :
       \E S \in SUBSET DemandaIds, fs \in SUBSET UsuarioIds :
       \E dfs \in {{}} \cup {{v} : v \in VinculosDeOrigem(fds, S, fs)} :
         /\ origem = [demanda |-> TabelaVazia, pessoa |-> PessoasNaOrigem,
                      fiscaldemanda |-> fds]
         /\ destino = [demandas |-> [i \in S |-> LinhaAntiga(i)], pessoas |-> {},
                       fiscais |-> fs, demandas_fiscais |-> dfs]
    /\ erros = <<>>
    /\ chamadas = SemChamadas
    /\ passo = [pc |-> "pronto"]
    /\ ult = [op |-> "nenhuma"]

\* loop, line 76: await syncFiscalDemanda()
RodadaIncremental ==
    /\ passo.pc = "pronto"
    /\ destino' = syncIncremental(destino, origem)
    /\ passo' = [pc |-> "dormindo"]
    /\ ult' = [op |-> "syncFiscalDemanda", antes |-> destino]
    /\ UNCHANGED <<origem, erros, chamadas>>

\* loop, line 78: setTimeout(loop, RUN_INTERVAL) fires.
DespertarIncremental ==
    /\ passo.pc = "dormindo"
    /\ passo' = [pc |-> "pronto"]
    /\ UNCHANGED <<origem, destino, erros, chamadas, ult>>

NextIncremental == RodadaIncremental \/ DespertarIncremental

SpecIncremental == InitIncremental /\ [][NextIncremental]_vars /\ WF_vars(NextIncremental)

----------------------------------------------------------------------------
(* Properties of the writer *)

mapeadaDe(item) == mapearDemanda(item.data, item.dadosPessoa)

\* C1: applying the same mapped demanda through inserirDemanda N times, for
\* every N >= 1, leaves fiscalizacao.demandas exactly as one application left it.
C1_Idempotencia ==
    ult.op = "inserirDemanda" => destino.demandas = ult.apos1.demandas

\* The record was applied MaxAplicacoes times on an id that already existed,
\* and the first application changed the table.
C1_Aplicada ==
    /\ ult.op = "inserirDemanda"
    /\ ult.n = MaxAplicacoes
    /\ ult.erro = SemErro
    /\ ult.demanda.id \in DOMAIN ult.antes.demandas
    /\ ult.antes.demandas # destino.demandas

\* C7: for every destination state and every source demanda d whose write
\* violates no constraint, the one-element batch [d] written by
\* sincronizarDemandasBulk leaves fiscalizacao.demandas as inserirDemanda on
\* mapearDemanda(d) would, whether the id is absent or already exists.
C7_CaminhosIdenticos ==
    (ult.op = "sincronizarDemandasBulk" /\ Len(ult.lote) = 1) =>
        LET m == mapeadaDe(ult.lote[1]) IN
        violacoes(ult.antes, m) = {} =>
            destino.demandas = inserirDemanda(ult.antes, m, ErroFkPessoa).db.demandas

\* The bulk statement of the last batch failed on a constraint.
loteViola(db, lote) == \E j \in DOMAIN lote : violacoes(db, mapeadaDe(lote[j])) # {}

\* The record's own write succeeds on the database the batch started from.
escritaIndividualOk(db, orig, item) ==
    \A pref \in Prefs :
        tentarInserirComRetry(db, orig, mapeadaDe(item), item.data, pref).erro = SemErro

\* The destination row holds what a single-record upsert of m writes.
linhaReflete(db, m) ==
    /\ m.id \in DOMAIN db.demandas
    /\ conflitoInserir(db.demandas[m.id], m) = db.demandas[m.id]

\* C8: when the bulk statement fails because some record of the batch violates
\* a constraint, every record of the batch whose individual write would succeed
\* is at the destination when sincronizarDemandasBulk returns.
C8_IsolamentoPorRegistro ==
    (ult.op = "sincronizarDemandasBulk" /\ loteViola(ult.antes, ult.lote)) =>
        \A j \in DOMAIN ult.lote :
            escritaIndividualOk(ult.antes, origem, ult.lote[j])
                => linhaReflete(destino, mapeadaDe(ult.lote[j]))

\* A two-record batch whose first record failed for good and whose second
\* record, absent before, was written by the per-record loop.
C8_UmFalhaOutroEntra ==
    /\ ult.op = "sincronizarDemandasBulk"
    /\ Len(ult.lote) = 2
    /\ loteViola(ult.antes, ult.lote)
    /\ ult.erros = 1 /\ ult.sucesso = 1
    /\ ult.falhas = {ult.lote[1].data.id}
    /\ ult.lote[2].data.id \notin DOMAIN ult.antes.demandas
    /\ ult.lote[2].data.id \in DOMAIN destino.demandas

\* C9: every record sincronizarDemandasBulk counts as failed has a record in
\* the divergence ledger for its id when the function returns.
C9_FalhasNoLedger ==
    ult.op = "sincronizarDemandasBulk" => ult.falhas \subseteq idsNoLedger(erros)

----------------------------------------------------------------------------
(* Properties of the real-time path *)

ativas == {c \in Chamadores : chamadas[c].pc # "livre"}

ehViolacao(msg) == msg \in {ErroFkPessoa, ErroOutra}

\* C10, as stated: sincronizarDemanda never throws to its caller.
C10_NuncaLanca == \A c \in ativas : chamadas[c].pc # "lancou"

\* C10, amended: sincronizarDemanda returns normally only when its last write
\* succeeded; when a write fails for good it throws, having recorded the
\* record in the divergence ledger exactly when the failure of the first
\* attempt was a constraint violation.
C10_FalhaLancaERegistra ==
    \A c \in ativas :
        /\ chamadas[c].pc = "retornou" =>
             (chamadas[c].ultimaEscrita = SemErro /\ ~chamadas[c].registrou)
        /\ chamadas[c].pc = "lancou" =>
             /\ chamadas[c].erro # SemErro
             /\ chamadas[c].registrou <=> ehViolacao(chamadas[c].erro)
             /\ chamadas[c].registrou => chamadas[c].data.id \in idsNoLedger(erros)

\* A caller whose retry failed has thrown, and its record is in the ledger.
C10_LancouAposRetentativa ==
    \E c \in ativas :
        /\ chamadas[c].pc = "lancou"
        /\ chamadas[c].tentativa = 2
        /\ chamadas[c].ultimaEscrita # SemErro
        /\ chamadas[c].data.id \in idsNoLedger(erros)

----------------------------------------------------------------------------
(* Properties of the reconciliation pass *)

iniciado == passo.pc \in {"existentes", "fiscal", "fim"}

\* C3: no demanda whose fiscalizado_id the person pre-sync left unresolved is
\* among the records verificarGapsDemandas hands to sincronizarDemandasBulk.
C3_NaoResolvidoForaDoBulk == iniciado => passo.semPessoa = {}

\* The row the bulk write inserts for a source row of the reconciliation.
linhaInserida(d) == mapearDemanda(d, NULL)

C6_NuncaRemove ==
    iniciado =>
        /\ DOMAIN passo.antes.demandas \subseteq DOMAIN destino.demandas
        /\ passo.antes.demandas_fiscais \subseteq destino.demandas_fiscais

\* A full pass added a pair while the destination held a demanda without a
\* source row and a pair whose source row is inactive.
C6_CresceuComAusentes ==
    /\ passo.pc = "fim"
    /\ destino.demandas_fiscais # passo.antes.demandas_fiscais
    /\ \E i \in DOMAIN passo.antes.demandas : i \notin DOMAIN origem.demanda
    /\ \E par \in passo.antes.demandas_fiscais :
         \A fd \in origem.fiscaldemanda :
            (fd.demanda_id = par.demanda_id /\ fd.usuario_id = par.fiscal_id) => ~fd.ativo

----------------------------------------------------------------------------
(* Properties of pessoaSync *)

retornadas == {c \in Chamadores : chamadas[c].pc = "retornou"}

\* The requested ids that are in fiscalizacao.pessoas.
pedidosNoDestino(c) == idsUnicosDe(chamadas[c].ids) \cap destino.pessoas

C12_ConcorrentesResolvem ==
    \A a, b \in Chamadores :
        (a # b /\ chamadas[a].pc # "livre" /\ chamadas[b].pc # "livre"
              /\ ~chamadas[a].falhou /\ ~chamadas[b].falhou) =>
            /\ ~chamadas[a].fallback
            /\ (a \in retornadas /\ b \in retornadas) =>
                 \A p \in idsUnicosDe(chamadas[a].ids) \cap idsUnicosDe(chamadas[b].ids) :
                    p \in destino.pessoas => p \in chamadas[a].resultado \cap chamadas[b].resultado

\* Both calls found the same person missing, both read it from the source,
\* both ran their insert and both returned it.
C12_AmbasInseriram ==
    \E a, b \in retornadas :
        /\ a # b
        /\ ~chamadas[a].falhou /\ ~chamadas[b].falhou
        /\ \E p \in chamadas[a].lidos \cap chamadas[b].lidos :
              p \in chamadas[a].resultado \cap chamadas[b].resultado

----------------------------------------------------------------------------
(* Further properties of the reconciliation pass *)

\* C13, as stated: when the source window is empty the whole pass writes
\* nothing at the destination.
C13_JanelaVaziaPassoSemEscrita ==
    (iniciado /\ passo.janela = {}) => destino = passo.antes

\* C13, amended: when the source window is empty verificarGapsDemandas writes
\* nothing at the destination and returns; the two later phases of verificarGaps
\* still run on the destination's own rows.
C13_JanelaVaziaGapsSemEscrita ==
    (passo.pc = "existentes" /\ passo.janela = {}) =>
        (destino = passo.antes /\ passo.escritos = {})

\* verificarGapsDemandas returned on an empty window while the source holds a
\* demanda the destination lacks.
C13_JanelaVaziaComFaltantes ==
    /\ passo.pc = "existentes"
    /\ passo.janela = {}
    /\ DOMAIN origem.demanda \ DOMAIN destino.demandas # {}

\* The ids of the source window the destination lacked when the pass began.
emFalta == passo.janela \ DOMAIN passo.antes.demandas

----------------------------------------------------------------------------
(* Further properties of the real-time path *)

encerradas == {c \in ativas : chamadas[c].pc \in {"retornou", "lancou"}}

\* sincronizarDemanda("INSERT", d) met at its first attempt a person that is
\* at the source and not at the destination.
reparo(c) ==
    /\ chamadas[c].event_type = "INSERT"
    /\ chamadas[c].tent1 = "ausente"
    /\ chamadas[c].data.fiscalizado_id \in origem.pessoa

ambosPresentes(c) ==
    /\ chamadas[c].data.fiscalizado_id \in destino.pessoas
    /\ chamadas[c].data.id \in DOMAIN destino.demandas

C16_DeleteLogico ==
    [][\A c \in Chamadores :
          (/\ chamadas[c].pc = "escrever"
           /\ chamadas[c].event_type = "DELETE"
           /\ chamadas'[c].pc # "escrever") =>
              LET id == chamadas[c].data.id IN
              /\ DOMAIN destino'.demandas = DOMAIN destino.demandas
              /\ \A i \in DOMAIN destino.demandas \ {id} :
                    destino'.demandas[i] = destino.demandas[i]
              /\ [destino' EXCEPT !.demandas = destino.demandas] = destino
              /\ id \in DOMAIN destino.demandas =>
                    /\ [destino'.demandas[id] EXCEPT !.ativo = destino.demandas[id].ativo]
                          = destino.demandas[id]
                    /\ chamadas'[c].pc = "retornou" => ~destino'.demandas[id].ativo
     ]_vars

\* A DELETE returned: its row is still there, inactive, next to an active one.
C16_InativadaNaoRemovida ==
    \E c \in encerradas :
        /\ chamadas[c].event_type = "DELETE"
        /\ chamadas[c].pc = "retornou"
        /\ chamadas[c].data.id \in DOMAIN destino.demandas
        /\ ~destino.demandas[chamadas[c].data.id].ativo
        /\ \E i \in DOMAIN destino.demandas : destino.demandas[i].ativo

----------------------------------------------------------------------------
(* Properties of buscarRegistroOrigem *)

\* C17: for a table outside the supported set buscarRegistroOrigem returns
\* null without querying the source; for a row not found, or a failed query,
\* it returns null; it never throws.
C17_BuscaNuncaLanca ==
    ult.op = "buscarRegistroOrigem" =>
        /\ ~ult.res.lancou
        /\ ult.table \notin TabelasSuportadas =>
              (ult.res.retorno = <<>> /\ ~ult.res.consultou)
        /\ (ult.table \in TabelasSuportadas
               /\ (ult.io \/ linhasDaTabela(origem, ult.table, ult.id) = {})) =>
              ult.res.retorno = <<>>
        /\ ult.res.retorno # <<>> => ult.res.retorno[1].id = ult.id

\* The query of a supported table failed and the function returned null.
C17_ConsultaFalhou ==
    /\ ult.op = "buscarRegistroOrigem"
    /\ ult.table \in TabelasSuportadas
    /\ ult.io
    /\ linhasDaTabela(origem, ult.table, ult.id) # {}
    /\ ult.res.retorno = <<>>

----------------------------------------------------------------------------
(* Batch isolation in the reconciliation pass *)

\* C18: in verificarGapsDemandas a failure while one lote is processed does
\* not keep the other lotes from being processed: every missing id outside the
\* lote that failed is handed to the bulk write.
C18_LotesIsolados ==
    (iniciado /\ passo.janelaLida) =>
        \A i \in emFalta :
            \/ i \in passo.escritos
            \/ /\ passo.abortou > 0
               /\ i \in elementos(loteDe(faltantesDe(passo.antes, origem),
                                         passo.abortou, LoteGaps))

----------------------------------------------------------------------------
(* Racing writers *)

\* Both writers have finished and both have written the row.
corridaEncerrada ==
    /\ passo.pc = "escreveu"
    /\ chamadas[1].pc = "retornou"
    /\ IdCorrida \in DOMAIN destino.demandas

\* The row is the mapping of the source state s, with or without the person
\* data, in every column replicated from the source.
linhaEhMapeamentoDe(linha, s) ==
    \E dp \in {NULL, s.fiscalizado_id} :
        LET m == mapearDemanda(s, dp) IN
        /\ linha.situacao_id = m.situacao_id
        /\ linha.fiscalizado_id = m.fiscalizado_id
        /\ linha.fiscalizado_nome = m.fiscalizado_nome
        /\ linha.fiscalizado_demanda = m.fiscalizado_demanda
        /\ linha.classificacao = m.classificacao
        /\ linha.ativo = m.ativo
        /\ linha.grupo_ocorrencia_id = m.grupo_ocorrencia_id

\* C19 as stated: once a real-time sincronizarDemanda and a reconciliation
\* bulk write of the same id have both finished, in whatever order their
\* steps interleaved, the destination row equals the mapping of some state
\* the source row had, in every replicated column.
C19_CorridaConverge ==
    corridaEncerrada =>
        \E s \in ult.estados :
            linhaEhMapeamentoDe(destino.demandas[IdCorrida], s)

----------------------------------------------------------------------------
(* The periodic pass *)

emVoo == {k \in Execucoes : chamadas[k].pc \in {"lerOrigem", "transacao"}}

encerrou(k) == chamadas[k].pc \in {"retornou", "rejeitou", "agendou"}

\* C20: in the loop of syncFiscalDemanda at most one run is in flight at any
\* time, a next run is scheduled (a timer is pending) or started only when
\* every earlier run has finished, and a run that fails is still followed by
\* the scheduling of the next run.
C20_UmaPorVez ==
    /\ [](/\ Cardinality(emVoo) <= 1
          /\ passo.timers <= 1
          /\ passo.timers > 0 => emVoo = {}
          /\ \A k \in Execucoes :
                chamadas[k].pc # "naoIniciada" =>
                    \A j \in Execucoes : j < k => chamadas[j].pc = "agendou")
    /\ \A k \in Execucoes :
          (encerrou(k) /\ chamadas[k].falhou) ~> (chamadas[k].pc = "agendou")

\* The first run failed in its transaction, the next run was scheduled after
\* it and is in flight.
C20_FalhouEProximaEmVoo ==
    /\ chamadas[1].falhou
    /\ chamadas[1].novosRegistros # {}
    /\ chamadas[1].pc = "agendou"
    /\ chamadas[2].pc = "transacao"

----------------------------------------------------------------------------
(* Reconciliation and the ativo column *)

\* C21 as stated: no step of a reconciliation pass changes the ativo column
\* of an existing destination demanda from true to false, also when the
\* real-time path writes the same id between the pass's gap detection and
\* its bulk write.
C21_ReconcNuncaDesativa ==
    [][passo' # passo =>
          \A i \in DOMAIN destino.demandas :
              destino.demandas[i].ativo =>
                  /\ i \in DOMAIN destino'.demandas
                  /\ destino'.demandas[i].ativo]_vars

----------------------------------------------------------------------------
(* Transient failures *)

\* C22 as stated: an I/O failure of an individual source fetch is retried at
\* the call site and is not reported as "not found": when the row exists at
\* the source and the query of buscarRegistroOrigem fails, the call does not
\* answer null after that one query.
C22_FalhaNaoEhNaoEncontrado ==
    (/\ ult.op = "buscarRegistroOrigem"
     /\ ult.io
     /\ linhasDaTabela(origem, ult.table, ult.id) # {}) =>
        ult.res.retorno # <<>>

----------------------------------------------------------------------------
(* Bounded retry *)

\* The first write of the invocation failed on the person foreign key and
\* the person is neither at the source nor at the destination.
naoResolvivel(c) ==
    /\ chamadas[c].erro = ErroFkPessoa
    /\ chamadas[c].data.fiscalizado_id \notin origem.pessoa
    /\ chamadas[c].data.fiscalizado_id \notin destino.pessoas

registrosDe(i) == {k \in DOMAIN erros : erros[k].id = i}

\* C23: an invocation of sincronizarDemanda resolves the dependency only
\* before a second attempt and makes at most two write attempts; every
\* invocation appends at most one record to the ledger; and an invocation
\* whose write failed on the person foreign key for a person that cannot be
\* resolved ends by throwing after its first attempt, without a second write,
\* with exactly one record appended for the demanda id.
C23_RetentativaLimitada ==
    /\ \A c \in ativas :
          /\ chamadas[c].tentativa \in {1, 2}
          /\ chamadas[c].pc \in {"gpeVerificar", "gpeBuscar", "gpeInserir"} =>
                chamadas[c].tentativa = 1
          /\ chamadas[c].tentativa = 1 => chamadas[c].tent2 = "nenhuma"
    /\ \A i \in DemandaIds :
          Cardinality(registrosDe(i)) =
              Cardinality({c \in ativas : chamadas[c].data.id = i /\ chamadas[c].registrou})
    /\ \A c \in encerradas :
          naoResolvivel(c) =>
              /\ chamadas[c].pc = "lancou"
              /\ chamadas[c].tentativa = 1
              /\ chamadas[c].tent2 = "nenhuma"
              /\ chamadas[c].registrou
              /\ chamadas[c].data.id \notin DOMAIN destino.demandas
                    \/ destino.demandas[chamadas[c].data.id].fiscalizado_id
                          # chamadas[c].data.fiscalizado_id

\* Two invocations for the same demanda met the unresolvable person: each
\* threw after one attempt and the ledger has one record of each.
C23_DoisNaoResolvidos ==
    /\ \A c \in Chamadores : c \in encerradas /\ naoResolvivel(c)
    /\ chamadas[1].data.id = chamadas[2].data.id
    /\ Cardinality(registrosDe(chamadas[1].data.id)) = 2

----------------------------------------------------------------------------
(* Destination-local columns *)

\* C24: no write of the writer (inserirDemanda, atualizarDemanda, the bulk
\* statement and its one-by-one fallback) changes motivo_id or fiscal_id of
\* a row that was at the destination before the write.
C24_ColunasLocaisPreservadas ==
    [][\A i \in DOMAIN destino.demandas :
          /\ i \in DOMAIN destino'.demandas
          /\ destino'.demandas[i].motivo_id = destino.demandas[i].motivo_id
          /\ destino'.demandas[i].fiscal_id = destino.demandas[i].fiscal_id]_vars

\* A bulk write changed replicated columns of a row that keeps its local
\* motivo_id and fiscal_id.
C24_BulkSobreLinhaEnriquecida ==
    /\ ult.op = "sincronizarDemandasBulk"
    /\ \E i \in DOMAIN ult.antes.demandas :
          /\ destino.demandas[i] # ult.antes.demandas[i]
          /\ destino.demandas[i].motivo_id # NULL
          /\ destino.demandas[i].fiscal_id # NULL

----------------------------------------------------------------------------
(* Shutdown *)

aplicacoes == {c \in Chamadores : chamadas[c].pc # "livre"}

\* C25 as stated: after a shutdown request no notification is accepted, the
\* cron is cancelled before a connection is released, no application in
\* flight is cut off by the closing of the connections, and when shutdown()
\* has ended both connections are closed.
C25_EncerramentoOrdenado ==
    /\ \A c \in aplicacoes : chamadas[c].aceitaEm = "servindo"
    /\ (passo.origem # "aberta" \/ passo.destino # "aberta") => ~passo.cron
    /\ \A c \in aplicacoes : chamadas[c].pc # "interrompida"
    /\ passo.pc \in {"saiu", "falhou"} =>
          (passo.origem = "fechada" /\ passo.destino = "fechada")

----------------------------------------------------------------------------
(* Drift re-sync *)

\* C26 as stated, for a pass in which nothing fails: every identifier of the
\* source window that was at the destination before the pass has, after the
\* pass, the situacao_id and fiscalizado_id of its source row, whatever the
\* destination row held.
C26_JanelaRessincronizada ==
    (passo.pc = "fim" /\ ~passo.falhaIO /\ ~passo.falhaEscrita) =>
        \A i \in passo.janela \cap DOMAIN passo.antes.demandas :
            /\ destino.demandas[i].situacao_id = origem.demanda[i].situacao
            /\ destino.demandas[i].fiscalizado_id = origem.demanda[i].fiscalizado_id

----------------------------------------------------------------------------
(* Relations added to demandas_fiscais *)

\* C27: every pair a step of the script or of verificarGapsFiscalDemanda adds
\* to fiscalizacao.demandas_fiscais references a demanda and a fiscal that
\* are at the destination when it is inserted, and is the (demanda_id,
\* usuario_id) of an active row of public.fiscaldemanda.
C27_SoVinculosValidos ==
    [][\A par \in destino'.demandas_fiscais \ destino.demandas_fiscais :
          /\ par.demanda_id \in DOMAIN destino.demandas
          /\ par.fiscal_id \in destino.fiscais
          /\ \E fd \in origem.fiscaldemanda :
                /\ fd.ativo
                /\ fd.demanda_id = par.demanda_id
                /\ fd.usuario_id = par.fiscal_id]_vars

\* A run of the script committed its transaction: the pair of the active
\* source row is there, the source also has an inactive row, whose pair is
\* not.
C27_VinculoAtivoInserido ==
    /\ \E k \in Execucoes :
          /\ chamadas[k].pc = "retornou"
          /\ ~chamadas[k].falhou
          /\ chamadas[k].novosRegistros # {}
    /\ destino.demandas_fiscais # {}
    /\ \E fd \in origem.fiscaldemanda :
          /\ ~fd.ativo
          /\ fd.demanda_id \in DOMAIN destino.demandas
          /\ [demanda_id |-> fd.demanda_id, fiscal_id |-> fd.usuario_id]
                \notin destino.demandas_fiscais

----------------------------------------------------------------------------
(* Reconciliation summaries *)

\* C28 as stated: the count of synchronized records the fiscal-operacao
\* phase reports equals the number of rows it inserted into
\* fiscalizacao.fiscaloperacao, also when every staged row is filtered out.
C28_ContagemFiel ==
    ult.op = "verificarGapsFiscalOperacao" =>
        ult.sincronizados =
            Cardinality(destino.fiscaloperacao \ ult.antes.fiscaloperacao)

----------------------------------------------------------------------------
(* sincronizarDemandasExistentes, one lote *)

\* The ids of the lote that were found at the source.
encontradosNoLote == {i \in elementos(ult.idsLote) : i \in DOMAIN origem.demanda}

\* The demandas table after the lote: no row inserted or removed, rows not
\* found at the source unchanged, found rows changed in situacao_id and
\* fiscalizado_id only, and the lote applied to all found rows or to none.
soAtualizaDemandas ==
    LET a == ult.antes.demandas
        d == destino.demandas
    IN /\ DOMAIN d = DOMAIN a
       /\ \A i \in DOMAIN a \ encontradosNoLote : d[i] = a[i]
       /\ \A i \in DOMAIN a :
             [d[i] EXCEPT !.situacao_id = a[i].situacao_id,
                          !.fiscalizado_id = a[i].fiscalizado_id] = a[i]
       /\ ult.erros > 0 => d = a
       /\ ult.erros = 0 =>
             \A i \in encontradosNoLote :
                 /\ d[i].situacao_id = origem.demanda[i].situacao
                 /\ d[i].fiscalizado_id = origem.demanda[i].fiscalizado_id

\* C29 as stated: a lote of sincronizarDemandasExistentes changes nothing at
\* the destination but situacao_id and fiscalizado_id of the rows found at
\* the source, and is applied atomically.
C29_SoAtualizaNadaMais ==
    ult.op = "existentesLote" =>
        /\ soAtualizaDemandas
        /\ [destino EXCEPT !.demandas = ult.antes.demandas] = ult.antes

\* C29, amended: in fiscalizacao.demandas a lote changes nothing but
\* situacao_id and fiscalizado_id of the rows found at the source, inserts no
\* row and is applied to all of them or to none; outside that table it may
\* insert into fiscalizacao.pessoas persons the rows of the lote reference
\* (also when the update then fails), and changes nothing else.
C29_SoAtualizaEPessoas ==
    ult.op = "existentesLote" =>
        /\ soAtualizaDemandas
        /\ destino.fiscais = ult.antes.fiscais
        /\ destino.demandas_fiscais = ult.antes.demandas_fiscais
        /\ ult.antes.pessoas \subseteq destino.pessoas
        /\ destino.pessoas \ ult.antes.pessoas \subseteq
              {origem.demanda[i].fiscalizado_id : i \in encontradosNoLote}

\* A lote of two rows found at the source failed in its update after the
\* person of one of them had been inserted: no demanda changed.
C29_LoteFalhouInteiro ==
    /\ ult.op = "existentesLote"
    /\ ult.falha = "update"
    /\ Cardinality(encontradosNoLote) = 2
    /\ destino.pessoas # ult.antes.pessoas
    /\ \E i \in encontradosNoLote :
          origem.demanda[i].situacao # ult.antes.demandas[i].situacao_id

----------------------------------------------------------------------------
(* Properties of the staged bulk write *)

\* C30: the final INSERT ... SELECT of a lote of sincronizarDemandasOrigem finds
\* as temp_demandas_sync exactly the mapped rows of that lote (never a missing
\* or empty table, nor the rows of another lote), and what it merges into
\* fiscalizacao.demandas are those rows.
C30_StagingProprio ==
    ult.op = "mesclar" =>
        /\ ult.lidas.existe
        /\ ult.lidas.linhas = ult.mapeadas
        /\ ult.erro = SemErro =>
              \A r \in ult.mapeadas :
                 /\ r.id \in DOMAIN destino.demandas
                 /\ destino.demandas[r.id].situacao_id = r.situacao_id

----------------------------------------------------------------------------
(* Properties of the operação reconciliation *)

\* C31: in verificarGapsOperacoes, when the insert of one missing operação
\* fails, every other missing operação of the same pass is at the destination
\* after the pass.
C31_FalhaIsolada ==
    (ult.op = "verificarGapsOperacoes" /\ ~ult.leitura /\ ult.falhaEm # NULL) =>
        \A i \in ult.faltantes \ {ult.falhaEm} : i \in DOMAIN destino.operacao

----------------------------------------------------------------------------
(* Properties of the bulk writer's result *)

\* The write of batch record j committed: its row is at the destination with
\* the source-owned columns of its mapping.
escritaConfirmada(db, item) ==
    LET m == mapeadaDe(item) IN
    /\ m.id \in DOMAIN db.demandas
    /\ db.demandas[m.id].situacao_id = m.situacao_id
    /\ db.demandas[m.id].fiscalizado_id = m.fiscalizado_id
    /\ db.demandas[m.id].ativo = m.ativo

\* No write of batch record j committed: its id is as the call found it.
semEscrita(antes, db, item) ==
    IF item.data.id \in DOMAIN antes.demandas
    THEN item.data.id \in DOMAIN db.demandas
         /\ db.demandas[item.data.id] = antes.demandas[item.data.id]
    ELSE item.data.id \notin DOMAIN db.demandas

\* C32: sincronizarDemandasBulk returns sucesso + erros equal to the batch
\* length, sucesso counting exactly the records whose write committed and
\* erros those whose write did not; for an empty batch it returns {0, 0} and
\* writes nothing.
C32_ContagemDoLote ==
    ult.op = "bulkLote" =>
        LET escritos == {j \in DOMAIN ult.lote : ult.lote[j].data.id \notin ult.falhas} IN
        /\ ult.sucesso + ult.erros = Len(ult.lote)
        /\ ult.sucesso = Cardinality(escritos)
        /\ \A j \in escritos : escritaConfirmada(destino, ult.lote[j])
        /\ \A j \in DOMAIN ult.lote \ escritos : semEscrita(ult.antes, destino, ult.lote[j])
        /\ Len(ult.lote) = 0 => (ult.sucesso = 0 /\ ult.erros = 0 /\ destino = ult.antes)

\* The bulk statement of a two-record batch failed and the per-record loop
\* wrote one record and counted the other as an error.
C32_UmEscritoUmErro ==
    /\ ult.op = "bulkLote"
    /\ Len(ult.lote) = 2
    /\ ult.sucesso = 1 /\ ult.erros = 1
    /\ destino.demandas # ult.antes.demandas

----------------------------------------------------------------------------
(* Properties of one handled event *)

\* C33: from the same destination and the same source demanda,
\* sincronizarDemanda("INSERT", d) and sincronizarDemanda("UPDATE", d) leave
\* fiscalizacao.demandas equal and end alike, whether d.id was absent or present.
C33_EventosEquivalentes ==
    ult.op = "sincronizarDemanda" =>
        /\ destino.demandas = ult.outro.demandas
        /\ ult.erro = ult.outro.erro

\* An UPDATE event changed a row that was present.
C33_UpdateMudouLinha ==
    /\ ult.op = "sincronizarDemanda"
    /\ ult.event_type = "UPDATE"
    /\ ult.erro = SemErro
    /\ ult.data.id \in DOMAIN ult.antes.demandas
    /\ destino.demandas[ult.data.id].fiscalizado_demanda
          # ult.antes.demandas[ult.data.id].fiscalizado_demanda

----------------------------------------------------------------------------
(* Properties of the person enrichment *)

\* C34: whenever sincronizarDemanda("INSERT" or "UPDATE", d) succeeds for a
\* demanda whose fiscalizado_id is p, also when it succeeded through the retry
\* that inserted p, the destination row carries the name and cpfcnpj of person
\* p of the destination.
C34_EnriquecimentoConsistente ==
    (/\ ult.op = "sincronizarDemanda"
     /\ ult.erro = SemErro
     /\ ult.data.fiscalizado_id # NULL) =>
        /\ ult.data.fiscalizado_id \in destino.pessoas
        /\ destino.demandas[ult.data.id].fiscalizado_nome = ult.data.fiscalizado_id

----------------------------------------------------------------------------
(* Properties of the fiscal-demanda reconciliation *)

semParRepetido(tabela) ==
    \A j, k \in DOMAIN tabela : j # k => tabela[j] # tabela[k]

\* C35: verificarGapsFiscalDemanda never leaves two rows for one
\* (demanda_id, fiscal_id) pair and removes no row; a run that follows a
\* completed run on unchanged source and destination inserts nothing; and a
\* pass that failed has inserted no row.
C35_IdempotenteEAtomica ==
    ult.op = "verificarGapsFiscalDemanda" =>
        /\ semParRepetido(destino.demandas_fiscais)
        /\ SubSeq(destino.demandas_fiscais, 1, Len(ult.antes.demandas_fiscais))
              = ult.antes.demandas_fiscais
        /\ (ult.anterior = "nenhuma" /\ ult.falha = "nenhuma") => ult.inseridas = 0
        /\ ult.falha # "nenhuma" => destino = ult.antes

\* A second run followed a run that inserted the pair the source holds in
\* two active rows.
C35_SegundaPassagem ==
    /\ ult.op = "verificarGapsFiscalDemanda"
    /\ passo.passagens = MaxPassagens
    /\ ult.anterior = "nenhuma" /\ ult.falha = "nenhuma"
    /\ ult.inseridasAntes > 0
    /\ \E a, b \in origem.fiscaldemanda :
          /\ a.id # b.id /\ a.ativo /\ b.ativo
          /\ a.demanda_id = b.demanda_id /\ a.usuario_id = b.usuario_id
          /\ [demanda_id |-> a.demanda_id, fiscal_id |-> a.usuario_id]
                \in elementos(destino.demandas_fiscais)
                     \ elementos(SubSeq(destino.demandas_fiscais, 1,
                                        Len(destino.demandas_fiscais) - ult.inseridasAntes))

----------------------------------------------------------------------------
(* Properties of the order of the steps of a pass *)

\* C36: verificarGaps runs the demanda gap repair, then the re-sync of the
\* existing demandas, then the fiscal-demanda reconciliation, each to its end
\* before the next starts; whatever failed inside a step, the step ends in the
\* start of the next, and no error leaves verificarGaps.
C36_OrdemDosPassos ==
    /\ [](passo.pc \in {"parado", "existentes", "fiscal", "fim"})
    /\ [][/\ passo.pc = "parado" => passo'.pc = "existentes"
          /\ passo.pc = "existentes" => passo'.pc = "fiscal"
          /\ passo.pc = "fiscal" => passo'.pc = "fim"
          /\ passo.pc # "fim"]_vars

\* The pass ended after the gap repair was aborted by an error and the other
\* two steps changed the destination.
C36_FalhouESeguiu ==
    /\ passo.pc = "fim"
    /\ passo.abortou > 0
    /\ passo.revistos # {}
    /\ destino # passo.antes

----------------------------------------------------------------------------
(* Properties of the incremental fiscal-demanda sync *)

\* The source row is active and its demanda and fiscal are at the destination.
vinculoElegivel(fd) ==
    /\ fd \in origem.fiscaldemanda
    /\ fd.ativo
    /\ fd.demanda_id \in DOMAIN destino.demandas
    /\ fd.usuario_id \in destino.fiscais

vinculoNoDestino(fd) ==
    \E df \in destino.demandas_fiscais :
        df.demanda_id = fd.demanda_id /\ df.fiscal_id = fd.usuario_id

\* C37: under repeated runs of the incremental syncFiscalDemanda, every active
\* source fiscaldemanda row whose demanda and fiscal are at the destination is
\* eventually linked at the destination.
C37_TodoVinculoChega ==
    \A fd \in LinhasFiscalDemanda : vinculoElegivel(fd) ~> vinculoNoDestino(fd)

----------------------------------------------------------------------------
(* fecharConexoes *)

\* C38: once fecharConexoes has returned or thrown, end() has been called on
\* the source client and on the destination client, also when the end() of the
\* source client failed.
C38_AmbosEncerrados ==
    passo.pc \in {"saiu", "falhou"} =>
        /\ passo.origem \in {"encerrando", "fechada"}
        /\ passo.destino \in {"encerrando", "fechada"}

====
